---- MODULE Spec2Model ----
(***************************************************************************)
(* A model of the binary asset codec layer of rose-file-lib: the scalar    *)
(* and string primitives (io/reader.rs, io/writer.rs) and the codecs built *)
(* on them (files/stb.rs, files/stl.rs, files/zsc.rs).                     *)
(*                                                                         *)
(* Conventions.  A byte is a number 0..255, a stream is a sequence of      *)
(* bytes and a stream position is 0-based.  A Rust String is the sequence  *)
(* of its UTF-8 bytes.  An f32 is the sequence of its four little-endian   *)
(* IEEE-754 bytes.  Option<T> is a sequence of length 0 (None) or 1        *)
(* (Some).  A read returns [ok, v, p]: whether it succeeded, the value and *)
(* the position after it.                                                  *)
(***************************************************************************)
EXTENDS Integers, Sequences, FiniteSets, TLC

VARIABLES
    pc,     \* position of the driver: which call has completed
    val,    \* the logical value handed to write
    buf,    \* the bytes of the Cursor<Vec<u8>> the codec writes to / reads from
    pos,    \* the cursor position
    aux,    \* locals of a write in progress
    out     \* the value a read was called on, and how the call ended

vars == <<pc, val, buf, pos, aux, out>>

None == <<>>
Some(x) == <<x>>

(***************************************************************************)
(* io/writer.rs: the bytes each primitive hands to the sink.               *)
(***************************************************************************)
write_u8(n) == <<n % 256>>

write_u16(n) == <<n % 256, (n \div 256) % 256>>

write_u32(n) ==
    <<n % 256, (n \div 256) % 256, (n \div 65536) % 256, (n \div 16777216) % 256>>

\* a negative i16 is written as its two's complement
write_i16(n) == write_u16(IF n < 0 THEN n + 65536 ELSE n)

write_bool16(b) == write_u16(IF b THEN 1 ELSE 0)

\* min(string_len, len) bytes of the string, then zero padding up to len
write_string(s, len) ==
    [i \in 1..len |-> IF i <= Len(s) THEN s[i] ELSE 0]

write_cstring(s) == s \o <<0>>

write_string_u16(s) == write_u16(Len(s) % 65536) \o s

write_string_varbyte(s) ==
    IF Len(s) < 128
    THEN write_u8(Len(s)) \o s
    ELSE <<((Len(s) % 256) % 128) + 128, (Len(s) \div 128) % 256>> \o s

(***************************************************************************)
(* std::io::Cursor<Vec<u8>> as the sink: a write at position p overwrites  *)
(* what is there and extends the vector (zero filled) where it is shorter. *)
(***************************************************************************)
Put(w, bytes) ==
    LET keep == IF w.p < Len(w.b) THEN w.p ELSE Len(w.b)
        pad == [i \in 1..(w.p - keep) |-> 0]
    IN [b |-> SubSeq(w.b, 1, keep) \o pad \o bytes
              \o SubSeq(w.b, w.p + Len(bytes) + 1, Len(w.b)),
        p |-> w.p + Len(bytes)]

Seek(w, p) == [b |-> w.b, p |-> p]

(***************************************************************************)
(* io/reader.rs                                                            *)
(***************************************************************************)
Fail(p) == [ok |-> FALSE, v |-> <<>>, p |-> p]
Ok(v, p) == [ok |-> TRUE, v |-> v, p |-> p]

read_u8(b, p) == IF p + 1 <= Len(b) THEN Ok(b[p + 1], p + 1) ELSE Fail(p)

read_u16(b, p) ==
    IF p + 2 <= Len(b) THEN Ok(b[p + 1] + 256 * b[p + 2], p + 2) ELSE Fail(p)

\* a u32 read; the model holds numbers below 2^31 and every stream it reads
\* keeps the top byte of a u32 below 128
read_u32(b, p) ==
    IF p + 4 <= Len(b)
    THEN Ok(b[p + 1] + 256 * b[p + 2] + 65536 * b[p + 3] + 16777216 * (b[p + 4] % 128),
            p + 4)
    ELSE Fail(p)

read_i16(b, p) ==
    LET r == read_u16(b, p)
    IN IF r.ok /\ r.v >= 32768 THEN Ok(r.v - 65536, r.p) ELSE r

read_bool16(b, p) ==
    LET r == read_u16(b, p) IN IF r.ok THEN Ok(r.v # 0, r.p) ELSE r

read_f32(b, p) ==
    IF p + 4 <= Len(b) THEN Ok(SubSeq(b, p + 1, p + 4), p + 4) ELSE Fail(p)

\* str::from_utf8 succeeds on ASCII; a lone byte >= 128 is no UTF-8 and
\* EUC_KR.decode turns it into U+FFFD (EF BF BD)
RECURSIVE decode_narrow(_)
decode_narrow(bytes) ==
    IF bytes = <<>> THEN <<>>
    ELSE IF Len(bytes) = 1
    THEN (IF bytes[1] < 128 THEN bytes ELSE <<239, 191, 189>>)
    ELSE LET half == Len(bytes) \div 2
         IN decode_narrow(SubSeq(bytes, 1, half))
            \o decode_narrow(SubSeq(bytes, half + 1, Len(bytes)))

decode_string(bytes) == decode_narrow(bytes)

\* take(n).read_to_end: at most n bytes, fewer at end of stream, never an
\* error; then one trailing NUL is dropped
read_string(b, p, n) ==
    IF n = 0 THEN Ok(<<>>, p)
    ELSE LET avail == IF Len(b) > p THEN Len(b) - p ELSE 0
             k == IF n <= avail THEN n ELSE avail
             raw == SubSeq(b, p + 1, p + k)
             cut == IF k > 0 /\ raw[k] = 0 THEN SubSeq(raw, 1, k - 1) ELSE raw
         IN Ok(decode_string(cut), p + k)

read_string_u8(b, p) ==
    LET r == read_u8(b, p) IN IF r.ok THEN read_string(b, r.p, r.v) ELSE r

read_string_u16(b, p) ==
    LET r == read_u16(b, p) IN IF r.ok THEN read_string(b, r.p, r.v) ELSE r

read_string_varbyte(b, p) ==
    LET r1 == read_u8(b, p)
    IN IF ~r1.ok THEN r1
       ELSE IF r1.v < 128 THEN read_string(b, r1.p, r1.v)
       ELSE LET r2 == read_u8(b, r1.p)
            IN IF ~r2.ok THEN r2
               ELSE read_string(b, r2.p, ((r2.v * 128) % 65536) + (r1.v - 128))

\* read_until(0): the bytes up to and including the first NUL, or up to end
\* of stream; then pop() drops the last byte read, whatever it is
NulAt(b, p) ==
    IF \E i \in (p + 1)..Len(b) : b[i] = 0
    THEN CHOOSE i \in (p + 1)..Len(b) : b[i] = 0 /\ \A j \in (p + 1)..(i - 1) : b[j] # 0
    ELSE Len(b)

read_cstring(b, p) ==
    LET e == NulAt(b, p)
        raw == SubSeq(b, p + 1, e)
    IN Ok(decode_string(IF raw = <<>> THEN raw ELSE SubSeq(raw, 1, Len(raw) - 1)), e)

\* n reads of read_string_u16 in a row; a failed run keeps what it read
RECURSIVE read_strings_u16(_, _, _)
read_strings_u16(b, p, n) ==
    IF n = 0 THEN Ok(<<>>, p)
    ELSE LET r == read_string_u16(b, p)
         IN IF ~r.ok THEN r
            ELSE LET rest == read_strings_u16(b, r.p, n - 1)
                 IN [ok |-> rest.ok, v |-> <<r.v>> \o rest.v, p |-> rest.p]

\* n reads of read_u16 in a row
RECURSIVE read_u16s(_, _, _)
read_u16s(b, p, n) ==
    IF n = 0 THEN Ok(<<>>, p)
    ELSE LET r == read_u16(b, p)
         IN IF ~r.ok THEN r
            ELSE LET rest == read_u16s(b, r.p, n - 1)
                 IN IF ~rest.ok THEN rest ELSE Ok(<<r.v>> \o rest.v, rest.p)

RECURSIVE Concat(_)
Concat(ss) == IF ss = <<>> THEN <<>> ELSE Head(ss) \o Concat(Tail(ss))

(***************************************************************************)
(* files/stb.rs: DataTable                                                 *)
(***************************************************************************)
STB0 == <<83, 84, 66, 48>>
STB1 == <<83, 84, 66, 49>>

DataTable_default ==
    [identifier |-> STB1, header_row_height |-> 100, header_row_name |-> <<>>,
     headers |-> <<>>, data |-> <<>>, row_height |-> 40]

rows(t) == Len(t.data)

cols(t) == IF rows(t) > 0 THEN Len(t.data[1]) ELSE 0

\* get(row, col), 0-based: value(row, col).unwrap_or("")
get(t, r, c) == IF r < rows(t) /\ c < cols(t) THEN t.data[r + 1][c + 1] ELSE <<>>

\* the second loop of read: data[i].push(read_string_u16) for i in
\* 0..row_count, col_count times each; k counts the cells read so far
RECURSIVE read_cells(_, _, _, _, _, _)
read_cells(data, b, p, k, row_count, col_count) ==
    IF k = row_count * col_count THEN Ok(data, p)
    ELSE LET r == read_string_u16(b, p)
             i == (k \div col_count) + 1
         IN IF ~r.ok THEN [ok |-> FALSE, v |-> data, p |-> r.p]
            ELSE read_cells([data EXCEPT ![i] = Append(@, r.v)], b, r.p, k + 1,
                            row_count, col_count)

DataTable_read(self, b) ==
    LET Err(t) == [status |-> "err", self |-> t]
        rid == read_string(b, 0, 4)
        t1 == [self EXCEPT !.identifier = rid.v]
        roff == read_u32(b, rid.p)
        rrow == read_u32(b, roff.p)
        rcol == read_u32(b, rrow.p)
        rrh == read_u32(b, rcol.p)
        row_count == IF rrow.v > 0 THEN rrow.v - 1 ELSE 0
        col_count == IF rcol.v > 0 THEN rcol.v - 1 ELSE 0
        t2 == [t1 EXCEPT !.row_height = rrh.v % 65536]
        legacy == t1.identifier = STB0
        \* the legacy sub-version: one u32 width shared by all columns
        rw0 == read_u32(b, rrh.p)
        \* the current sub-version: u16 height, u16 width, col_count u16 widths
        rh1 == read_u16(b, rrh.p)
        rw1 == read_u16(b, rh1.p)
        rws == read_u16s(b, rw1.p, col_count)
        t3 == IF legacy THEN [t2 EXCEPT !.header_row_height = 100]
              ELSE IF rh1.ok THEN [t2 EXCEPT !.header_row_height = rh1.v] ELSE t2
        wok == IF legacy THEN rw0.ok ELSE rh1.ok /\ rw1.ok /\ rws.ok
        header_column_width == IF legacy THEN rw0.v % 65536 ELSE rw1.v
        column_widths == IF legacy THEN [i \in 1..col_count |-> header_column_width]
                         ELSE rws.v
        wp == IF legacy THEN rw0.p ELSE rws.p
        rnames == read_strings_u16(b, wp, 1 + col_count)
        widths == <<header_column_width>> \o column_widths
        t4 == [t3 EXCEPT !.headers =
                 @ \o [i \in 1..Len(rnames.v) |-> [name |-> rnames.v[i], width |-> widths[i]]]]
        rhrn == read_string_u16(b, rnames.p)
        t5 == [t4 EXCEPT !.header_row_name = rhrn.v]
        rrn == read_strings_u16(b, rhrn.p, row_count)
        t6 == [t5 EXCEPT !.data = @ \o [i \in 1..Len(rrn.v) |-> <<rrn.v[i]>>]]
        \* reader.seek(SeekFrom::Start(offset))
        rcells == read_cells(t6.data, b, roff.v, 0, row_count, col_count)
        t7 == [t6 EXCEPT !.data = rcells.v]
    IN IF ~(roff.ok /\ rrow.ok /\ rcol.ok) THEN Err(t1)
       ELSE IF ~rrh.ok THEN Err(t1)
       ELSE IF ~wok THEN Err(t3)
       ELSE IF ~rnames.ok THEN Err(t4)
       ELSE IF ~rhrn.ok THEN Err(t4)
       ELSE IF ~rrn.ok THEN Err(t6)
       ELSE IF ~rcells.ok THEN Err(t7)
       ELSE [status |-> "ok", self |-> t7]

\* write, up to the placeholder: the identifier in 4 bytes and a u32 0
DataTable_write_start(t) == write_string(t.identifier, 4) \o write_u32(0)

\* DataTable_write_head with the column count stored off by one, like the
\* row count
DataTable_write_head_cols_plus_one(t) ==
    write_u32(Len(t.data) + 1)
    \o write_u32(Len(t.headers) + 1)
    \o write_u32(t.row_height)
    \o write_u16(t.header_row_height)
    \o Concat([i \in 1..Len(t.headers) |-> write_u16(t.headers[i].width)])
    \o Concat([i \in 1..Len(t.headers) |-> write_string_u16(t.headers[i].name)])
    \o write_string_u16(t.header_row_name)
    \o Concat([i \in 1..Len(t.data) |-> write_string_u16(t.data[i][1])])

\* write, from the counts to the row names
DataTable_write_head(t) ==
    write_u32(Len(t.data) + 1)
    \o write_u32(Len(t.headers))
    \o write_u32(t.row_height)
    \o write_u16(t.header_row_height)
    \o Concat([i \in 1..Len(t.headers) |-> write_u16(t.headers[i].width)])
    \o Concat([i \in 1..Len(t.headers) |-> write_string_u16(t.headers[i].name)])
    \o write_string_u16(t.header_row_name)
    \o Concat([i \in 1..Len(t.data) |-> write_string_u16(t.data[i][1])])

\* write, the grid: row.iter().skip(1) of every row
DataTable_write_cells(t) ==
    Concat([i \in 1..Len(t.data) |->
              Concat([j \in 1..(Len(t.data[i]) - 1) |-> write_string_u16(t.data[i][j + 1])])])

\* the position the patch seeks to
OffsetSlot == 4

\* DataTable_write_patch seeking to the start of the file
DataTable_write_patch_at_zero(w, offset) == Put(Seek(w, 0), write_u32(offset))

\* write, the patch: seek(SeekFrom::Start(4)); write_u32(offset)
DataTable_write_patch(w, offset) == Put(Seek(w, OffsetSlot), write_u32(offset))

(***************************************************************************)
(* files/stl.rs: StringTable                                               *)
(***************************************************************************)
\* StringTableLanguage::LENGTH
LanguageCount == 7

\* the fields of an entry of each variant: text, description, start, end
FieldCount(variant) ==
    CASE variant = "Text" -> 1
      [] variant = "Description" -> 2
      [] variant = "Quest" -> 4

\* Display for StringTableType
TypeTag(entry_type) ==
    CASE entry_type = "Text" -> <<78, 82, 83, 84, 48, 49>>
      [] entry_type = "Description" -> <<73, 84, 83, 84, 48, 49>>
      [] entry_type = "Quest" -> <<81, 69, 83, 84, 48, 49>>

\* StringTableType::from_str: None stands for the Err
StringTableType_from_str(tag) ==
    IF \E ty \in {"Text", "Description", "Quest"} : TypeTag(ty) = tag
    THEN Some(CHOOSE ty \in {"Text", "Description", "Quest"} : TypeTag(ty) = tag)
    ELSE None

StringTableEntry_new(entry_type) ==
    [variant |-> entry_type,
     fields |-> [f \in 1..FieldCount(entry_type) |-> [l \in 1..LanguageCount |-> <<>>]]]

StringTable_default == [entry_type |-> "Text", entries |-> <<>>]

\* human_sort::compare: runs of digits compare by value, other characters
\* one by one; when one string runs out the plain str::cmp decides
RECURSIVE str_cmp(_, _)
str_cmp(a, b) ==
    IF a = <<>> /\ b = <<>> THEN "Equal"
    ELSE IF a = <<>> THEN "Less"
    ELSE IF b = <<>> THEN "Greater"
    ELSE IF Head(a) < Head(b) THEN "Less"
    ELSE IF Head(a) > Head(b) THEN "Greater"
    ELSE str_cmp(Tail(a), Tail(b))

RECURSIVE human_walk(_, _)
human_walk(a, b) ==
    LET IsDigit(c) == c >= 48 /\ c <= 57
        \* take_numeric: <<value of the leading digits, the rest>>
        Take(x) ==
            LET n == CHOOSE k \in 0..Len(x) :
                        /\ \A i \in 1..k : IsDigit(x[i])
                        /\ (k < Len(x) => ~IsDigit(x[k + 1]))
                F[i \in 0..n] == IF i = 0 THEN 0 ELSE F[i - 1] * 10 + (x[i] - 48)
            IN <<F[n], SubSeq(x, n + 1, Len(x))>>
    IN IF a = <<>> \/ b = <<>> THEN "End"
       ELSE IF IsDigit(Head(a)) /\ IsDigit(Head(b))
       THEN IF Take(a)[1] < Take(b)[1] THEN "Less"
            ELSE IF Take(a)[1] > Take(b)[1] THEN "Greater"
            ELSE human_walk(Take(a)[2], Take(b)[2])
       ELSE IF Head(a) < Head(b) THEN "Less"
       ELSE IF Head(a) > Head(b) THEN "Greater"
       ELSE human_walk(Tail(a), Tail(b))

human_sort_compare(a, b) ==
    IF human_walk(a, b) = "End" THEN str_cmp(a, b) ELSE human_walk(a, b)

\* self.entries.keys().collect(): the keys in any order, each once
hash_orders(S) ==
    {order \in [1..Cardinality(S) -> S] : \A k \in S : \E i \in DOMAIN order : order[i] = k}

\* keys.sort_by(human_sort::compare) on the keys in the order the map
\* yielded them: the stable insertion sort sort_by runs on a short slice,
\* which moves a key down past every neighbour it compares Less than
RECURSIVE sort_keys(_)
sort_keys(order) ==
    IF order = <<>> THEN <<>>
    ELSE LET Insert(sorted, key) ==
                 LET Place(j) == SubSeq(sorted, 1, j) \o <<key>>
                                 \o SubSeq(sorted, j + 1, Len(sorted))
                 IN Place(CHOOSE j \in 0..Len(sorted) :
                             /\ j = 0 \/ human_sort_compare(key, sorted[j]) # "Less"
                             /\ \A i \in (j + 1)..Len(sorted) :
                                   human_sort_compare(key, sorted[i]) = "Less")
         IN Insert(sort_keys(SubSeq(order, 1, Len(order) - 1)), order[Len(order)])

\* write, up to the placeholders: type tag, sorted keys with their index as
\* integer key, language count, one zero u32 per language; order is the
\* order in which entries.keys() yields the keys
stl_write_head(t, w0, order) ==
    LET keys == sort_keys(order)
        w1 == Put(w0, write_string_varbyte(TypeTag(t.entry_type))
                      \o write_u32(Len(keys))
                      \o Concat([i \in 1..Len(keys) |->
                                   write_string_varbyte(keys[i]) \o write_u32(i - 1)])
                      \o write_u32(LanguageCount))
        w2 == Put(w1, [i \in 1..(4 * LanguageCount) |-> 0])
    IN [w |-> w2, keys |-> keys, language_offsets |-> w1.p, entry_offsets |-> w2.p]

\* stl_write_table without the seek back: the zero slots of the key offsets
\* are written right after the patched slot
stl_write_table_no_seek_back(w, language_offsets, nkeys, language_index) ==
    LET position == w.p
        wa == Put(Seek(w, language_offsets + 4 * language_index), write_u32(position))
    IN Put(wa, [i \in 1..(4 * nkeys) |-> 0])

\* write, one round of the first loop: patch the language's slot of the
\* language-offset array with the current position, seek back, and write
\* one zero u32 per key
stl_write_table(w, language_offsets, nkeys, language_index) ==
    LET position == w.p
        wa == Put(Seek(w, language_offsets + 4 * language_index), write_u32(position))
    IN Put(Seek(wa, position), [i \in 1..(4 * nkeys) |-> 0])

\* stl_write_entry without the language stride: every language patches the
\* slots of the first language's offset table
stl_write_entry_no_stride(w, t, keys, entry_offsets, language_index, entry_index) ==
    LET position == w.p
        e == t.entries[keys[entry_index + 1]]
        wa == Put(Seek(w, entry_offsets + 4 * entry_index), write_u32(position))
    IN Put(Seek(wa, position),
           Concat([f \in 1..Len(e.fields) |->
                     write_string_varbyte(e.fields[f][language_index + 1])]))

\* write, one round of the second loop: patch the key's slot in the
\* language's offset table with the current position, seek back, and write
\* the strings of the entry
stl_write_entry(w, t, keys, entry_offsets, language_index, entry_index) ==
    LET position == w.p
        language_entry_offsets == entry_offsets + language_index * Len(keys) * 4
        e == t.entries[keys[entry_index + 1]]
        wa == Put(Seek(w, language_entry_offsets + 4 * entry_index), write_u32(position))
    IN Put(Seek(wa, position),
           Concat([f \in 1..Len(e.fields) |->
                     write_string_varbyte(e.fields[f][language_index + 1])]))

\* read, the key list: (string key, discarded integer key) pairs
RECURSIVE stl_read_keys(_, _, _)
stl_read_keys(b, p, n) ==
    IF n = 0 THEN Ok(<<>>, p)
    ELSE LET Rest(rk, rest) == [ok |-> rest.ok, v |-> <<rk.v>> \o rest.v, p |-> rest.p]
             IntegerKey(rk, ri) ==
                 IF ~ri.ok THEN Fail(ri.p) ELSE Rest(rk, stl_read_keys(b, ri.p, n - 1))
             StringKey(rk) ==
                 IF ~rk.ok THEN Fail(rk.p) ELSE IntegerKey(rk, read_u32(b, rk.p))
         IN StringKey(read_string_varbyte(b, p))

\* read_strings_varbyte with every string read at p, where the first begins
read_strings_varbyte_from_start(b, p, n) ==
    LET All(r) == IF ~r.ok THEN Fail(r.p) ELSE Ok([i \in 1..n |-> r.v], r.p)
    IN IF n = 0 THEN Ok(<<>>, p) ELSE All(read_string_varbyte(b, p))

\* n reads of read_string_varbyte in a row; a failed run keeps what it read
RECURSIVE read_strings_varbyte(_, _, _)
read_strings_varbyte(b, p, n) ==
    IF n = 0 THEN Ok(<<>>, p)
    ELSE LET Rest(r, rest) == [ok |-> rest.ok, v |-> <<r.v>> \o rest.v, p |-> rest.p]
             First(r) ==
                 IF ~r.ok THEN Fail(r.p) ELSE Rest(r, read_strings_varbyte(b, r.p, n - 1))
         IN First(read_string_varbyte(b, p))

\* read, the keys of one language: for each key read its offset, seek
\* there, read the strings of the entry one after the other, seek back
RECURSIVE stl_read_entries(_, _, _, _, _, _)
stl_read_entries(entries, keys, b, p, language, k) ==
    IF k > Len(keys) THEN Ok(entries, p)
    ELSE LET Strings(ro, rs) ==
                 \* the strings read before a failing one are already stored
                 LET stored == [entries EXCEPT ![keys[k]].fields =
                                  [f \in 1..Len(@) |->
                                     IF f <= Len(rs.v)
                                     THEN [@[f] EXCEPT ![language + 1] = rs.v[f]]
                                     ELSE @[f]]]
                 IN IF ~rs.ok THEN [ok |-> FALSE, v |-> stored, p |-> rs.p]
                    ELSE stl_read_entries(stored, keys, b, ro.p, language, k + 1)
             Offset(ro) ==
                 IF ~ro.ok THEN [ok |-> FALSE, v |-> entries, p |-> p]
                 ELSE Strings(ro, read_strings_varbyte(b, ro.v, Len(entries[keys[k]].fields)))
         IN Offset(read_u32(b, p))

\* read, up to the language count: the type tag, then for each key an
\* insert of a new entry of the type just read
stl_read_head(self, b) ==
    LET Stop(s) == [ok |-> FALSE, self |-> s, keys |-> <<>>, p |-> 0, language_count |-> 0]
        Languages(s2, rkeys, rlang) ==
            IF ~rkeys.ok \/ ~rlang.ok THEN Stop(s2)
            ELSE [ok |-> TRUE, self |-> s2, keys |-> rkeys.v, p |-> rlang.p,
                  language_count |-> rlang.v]
        \* entries.insert(string_key, StringTableEntry::new(self.entry_type))
        Keys(s1, rkeys) ==
            LET inserted == {rkeys.v[i] : i \in 1..Len(rkeys.v)}
                s2 == [s1 EXCEPT !.entries =
                         [k \in (DOMAIN @) \cup inserted |->
                            IF k \in inserted THEN StringTableEntry_new(s1.entry_type)
                            ELSE @[k]]]
            IN Languages(s2, rkeys, read_u32(b, rkeys.p))
        Count(s1, rcount) ==
            IF ~rcount.ok THEN Stop(s1) ELSE Keys(s1, stl_read_keys(b, rcount.p, rcount.v))
        Tag(rtag, ty) ==
            IF ~rtag.ok \/ ty = None THEN Stop(self)
            ELSE Count([self EXCEPT !.entry_type = ty[1]], read_u32(b, rtag.p))
        Typed(rtag) == Tag(rtag, StringTableType_from_str(rtag.v))
    IN Typed(read_string_u8(b, 0))

\* stl_read_language without the skip of the ids that are no
\* StringTableLanguage
stl_read_language_no_skip(entries, keys, b, p, language_id) ==
    LET Entries(ro, re) == IF ~re.ok THEN re ELSE Ok(re.v, ro.p)
        Offset(ro) ==
            IF ~ro.ok THEN [ok |-> FALSE, v |-> entries, p |-> p]
            ELSE Entries(ro, stl_read_entries(entries, keys, b, ro.v, language_id, 1))
    IN Offset(read_u32(b, p))

\* read, one round of the language loop: ids that are no
\* StringTableLanguage are skipped after their offset is read
stl_read_language(entries, keys, b, p, language_id) ==
    LET Entries(ro, re) == IF ~re.ok THEN re ELSE Ok(re.v, ro.p)
        Offset(ro) ==
            IF ~ro.ok THEN [ok |-> FALSE, v |-> entries, p |-> p]
            ELSE IF language_id >= LanguageCount THEN Ok(entries, ro.p)
            ELSE Entries(ro, stl_read_entries(entries, keys, b, ro.v, language_id, 1))
    IN Offset(read_u32(b, p))

(***************************************************************************)
(* files/zsc.rs: ModelList, the binary form.  Enum values are their        *)
(* discriminants; a Vector3 or Color3 is a tuple of three f32, a           *)
(* Quaternion a record of four.                                            *)
(***************************************************************************)
\* the f32 values the model uses, as their little-endian bytes
f32(x) ==
    CASE x = "0.0" -> <<0, 0, 0, 0>>
      [] x = "-0.0" -> <<0, 0, 0, 128>>
      [] x = "0.5" -> <<0, 0, 0, 63>>
      [] x = "1.0" -> <<0, 0, 128, 63>>
      [] x = "-1.0" -> <<0, 0, 128, 191>>
      [] x = "2.0" -> <<0, 0, 0, 64>>
      [] x = "2.5" -> <<0, 0, 32, 64>>
      \* eight steps below 1.0: 0x3F7FFFF8
      [] x = "1.0-8ulp" -> <<248, 255, 127, 63>>

\* f == 0.0 in f32 arithmetic: both zeros compare equal to 0.0
f32_is_zero(f) == f[1] = 0 /\ f[2] = 0 /\ f[3] = 0 /\ f[4] % 128 = 0

\* `radius as u32` and `read_u32()? as f32` on the values the model uses:
\* the cast to u32 drops the fraction
f32_as_u32(f) ==
    CASE f32_is_zero(f) -> 0
      [] f = f32("0.5") -> 0
      [] f = f32("1.0") -> 1
      [] f = f32("2.0") -> 2
      [] f = f32("2.5") -> 2

u32_as_f32(n) ==
    CASE n = 0 -> f32("0.0")
      [] n = 1 -> f32("1.0")
      [] n = 2 -> f32("2.0")

Vector3_ZERO == <<f32("0.0"), f32("0.0"), f32("0.0")>>
Vector3_ONE == <<f32("1.0"), f32("1.0"), f32("1.0")>>
Quaternion_IDENTITY == [x |-> f32("0.0"), y |-> f32("0.0"), z |-> f32("0.0"), w |-> f32("1.0")]

\* w.abs().acos() * 2.0 < 0.0028471446: acos of a value above 1 is NaN and
\* compares false; below 1 the angle stays under the threshold for the f32
\* values up to 16 steps under 1.0 (the threshold is the angle of 1 - 1e-6,
\* which is 17 steps under)
is_near_identity(q) ==
    LET bits == q.w[1] + 256 * q.w[2] + 65536 * q.w[3] + 16777216 * (q.w[4] % 128)
    IN bits <= 1065353216 /\ bits >= 1065353216 - 16

write_i32(n) ==
    IF n >= 0 THEN write_u32(n)
    ELSE LET m == (n + 2147483647) + 1
         IN <<m % 256, (m \div 256) % 256, (m \div 65536) % 256,
              ((m \div 16777216) % 128) + 128>>

ModelMaterial_default ==
    [path |-> <<>>, is_skin |-> FALSE, alpha_enabled |-> FALSE, two_sided |-> FALSE,
     alpha_test |-> Some(128), z_write_enabled |-> TRUE, z_test_enabled |-> TRUE,
     blend_mode |-> None, specular_enabled |-> FALSE, alpha |-> f32("1.0"), glow |-> None]

ModelPart_default ==
    [mesh_path |-> <<>>, material |-> Some(ModelMaterial_default),
     position |-> Vector3_ZERO, rotation |-> Quaternion_IDENTITY, scale |-> Vector3_ONE,
     bone_index |-> None, dummy_index |-> None, parent |-> None,
     collision_shape |-> None, collision_flags |-> 0, animation_path |-> None,
     range_set_id |-> None, use_lightmap |-> FALSE]

ModelDummyPoint_default ==
    [attachment |-> None, position |-> Vector3_ZERO, rotation |-> Quaternion_IDENTITY,
     scale |-> Vector3_ONE, parent |-> None]

\* Vec::sort of a set of strings: the element with i - 1 smaller ones is at i
sort_strings(S) ==
    [i \in 1..Cardinality(S) |->
        CHOOSE x \in S : Cardinality({y \in S : str_cmp(y, x) = "Less"}) = i - 1]

\* the file a dummy point's attachment names: the path of an Effect, the
\* name of a Light
attachment_file(a) == IF a.kind = "Light" THEN a.name ELSE a.path

\* the pools write collects from the present models: mesh paths and effect
\* paths sorted, the distinct materials of the parts
zsc_pools(self) ==
    LET present == {i \in 1..Len(self.models) : self.models[i] # None}
        parts == UNION {{self.models[i][1].parts[j] : j \in 1..Len(self.models[i][1].parts)}
                        : i \in present}
        dummy_points ==
            UNION {{self.models[i][1].dummy_points[j]
                        : j \in 1..Len(self.models[i][1].dummy_points)} : i \in present}
    IN [mesh_files |-> sort_strings({part.mesh_path : part \in parts}),
        materials |-> {part.material[1] : part \in {x \in parts : x.material # None}},
        effect_files |->
            sort_strings({attachment_file(d.attachment[1])
                            : d \in {x \in dummy_points : x.attachment # None}})]

\* materials.sort_by(path) over the HashSet's iteration order: every order
\* of the distinct materials in which the paths never decrease
zsc_material_orders(materials) ==
    {ms \in [1..Cardinality(materials) -> materials] :
        /\ \A i, j \in DOMAIN ms : i < j => ms[i] # ms[j] /\ str_cmp(ms[j].path, ms[i].path) # "Less"}

\* HashMap::get(..).unwrap() on the maps built by enumerate()
index_of(pool, x) == (CHOOSE i \in 1..Len(pool) : pool[i] = x) - 1

\* the material record as write lays it out
zsc_write_material(mat) ==
    write_cstring(mat.path)
    \o write_bool16(mat.is_skin)
    \o write_bool16(mat.alpha_enabled)
    \o write_bool16(mat.two_sided)
    \o (IF mat.alpha_test # None
        THEN write_bool16(TRUE) \o write_u16(mat.alpha_test[1])
        ELSE write_bool16(FALSE) \o write_u16(0))
    \o write_bool16(mat.z_write_enabled)
    \o write_bool16(mat.z_test_enabled)
    \o write_u16(IF mat.blend_mode # None THEN mat.blend_mode[1] ELSE 0)
    \o write_bool16(mat.specular_enabled)
    \o mat.alpha
    \o (IF mat.glow # None
        THEN write_u16(mat.glow[1].glow_type) \o Concat(mat.glow[1].color)
        \* Color3::WHITE
        ELSE write_u16(0) \o Concat(Vector3_ONE))

\* write, the three pools and the model count
zsc_write_head(self, pools) ==
    write_u16(Len(pools.mesh_files))
    \o Concat([i \in 1..Len(pools.mesh_files) |-> write_cstring(pools.mesh_files[i])])
    \o write_u16(Len(pools.materials))
    \o Concat([i \in 1..Len(pools.materials) |-> zsc_write_material(pools.materials[i])])
    \o write_u16(Len(pools.effect_files))
    \o Concat([i \in 1..Len(pools.effect_files) |-> write_cstring(pools.effect_files[i])])
    \o write_u16(Len(self.models))

\* the Position, Rotation and Scale tags of a part or a dummy point
zsc_write_transform(x) ==
    (IF \E i \in 1..3 : ~f32_is_zero(x.position[i])
     THEN <<1, 12>> \o Concat(x.position) ELSE <<>>)
    \o (IF ~is_near_identity(x.rotation)
        THEN <<2, 16>> \o x.rotation.w \o x.rotation.x \o x.rotation.y \o x.rotation.z
        ELSE <<>>)
    \o (IF \E i \in 1..3 : x.scale[i] # f32("1.0")
        THEN <<3, 12>> \o Concat(x.scale) ELSE <<>>)

\* one part: pool indices, a tag for each field that is set, the tag None
zsc_write_part(part, pools) ==
    write_u16(index_of(pools.mesh_files, part.mesh_path))
    \o (IF part.material # None
        THEN write_u16(index_of(pools.materials, part.material[1]))
        ELSE write_u16(0))
    \o zsc_write_transform(part)
    \o (IF part.bone_index # None THEN <<5, 2>> \o write_u16(part.bone_index[1]) ELSE <<>>)
    \o (IF part.dummy_index # None THEN <<6, 2>> \o write_u16(part.dummy_index[1]) ELSE <<>>)
    \o (IF part.parent # None THEN <<7, 2>> \o write_u16(part.parent[1] + 1) ELSE <<>>)
    \o (IF part.collision_shape # None
        THEN <<29, 2>> \o write_u16(part.collision_shape[1] + part.collision_flags)
        ELSE <<>>)
    \o (IF part.animation_path # None
        THEN <<30>> \o write_u8(Len(part.animation_path[1]))
             \o write_string(part.animation_path[1], Len(part.animation_path[1]))
        ELSE <<>>)
    \o (IF part.range_set_id # None THEN <<31, 2>> \o write_u16(part.range_set_id[1]) ELSE <<>>)
    \o (IF part.use_lightmap THEN <<32, 2>> \o write_bool16(part.use_lightmap) ELSE <<>>)
    \o write_u8(0)

\* one dummy point: effect index and attachment type, its tags, the tag None
zsc_write_dummy_point(effect, pools) ==
    (IF effect.attachment = None THEN write_i16(-1) \o write_u16(0)
     ELSE write_u16(index_of(pools.effect_files, attachment_file(effect.attachment[1])))
          \o write_u16(IF effect.attachment[1].kind = "Light" THEN 2
                       ELSE IF effect.attachment[1].only_visible_at_night THEN 1 ELSE 0))
    \o zsc_write_transform(effect)
    \o (IF effect.parent # None THEN <<7, 2>> \o write_u16(effect.parent[1] + 1) ELSE <<>>)
    \o write_u8(0)

\* zsc_write_model writing a dummy-point count after the part count of a hole
zsc_write_model_hole_with_count(object, pools) ==
    IF object = None
    THEN write_u32(0) \o write_i32(0) \o write_i32(0) \o write_u16(0) \o write_u16(0)
    ELSE write_u32(f32_as_u32(object[1].bounding_cylinder.radius))
         \o write_i32(object[1].bounding_cylinder.center[1])
         \o write_i32(object[1].bounding_cylinder.center[2])
         \o write_u16(Len(object[1].parts))
         \o (IF object[1].parts = <<>> THEN <<>>
             ELSE Concat([i \in 1..Len(object[1].parts) |->
                            zsc_write_part(object[1].parts[i], pools)])
                  \o write_u16(Len(object[1].dummy_points))
                  \o Concat([i \in 1..Len(object[1].dummy_points) |->
                               zsc_write_dummy_point(object[1].dummy_points[i], pools)])
                  \o Concat(object[1].bounding_box.min)
                  \o Concat(object[1].bounding_box.max))

\* write, one round of the model loop
zsc_write_model(object, pools) ==
    IF object = None
    THEN write_u32(0) \o write_i32(0) \o write_i32(0) \o write_u16(0)
    ELSE write_u32(f32_as_u32(object[1].bounding_cylinder.radius))
         \o write_i32(object[1].bounding_cylinder.center[1])
         \o write_i32(object[1].bounding_cylinder.center[2])
         \o write_u16(Len(object[1].parts))
         \o (IF object[1].parts = <<>> THEN <<>>
             ELSE Concat([i \in 1..Len(object[1].parts) |->
                            zsc_write_part(object[1].parts[i], pools)])
                  \o write_u16(Len(object[1].dummy_points))
                  \o Concat([i \in 1..Len(object[1].dummy_points) |->
                               zsc_write_dummy_point(object[1].dummy_points[i], pools)])
                  \o Concat(object[1].bounding_box.min)
                  \o Concat(object[1].bounding_box.max))

read_i32(b, p) ==
    IF p + 4 <= Len(b)
    THEN Ok(b[p + 1] + 256 * b[p + 2] + 65536 * b[p + 3] + 16777216 * (b[p + 4] % 128)
            - (IF b[p + 4] >= 128 THEN 2147483647 ELSE 0)
            - (IF b[p + 4] >= 128 THEN 1 ELSE 0),
            p + 4)
    ELSE Fail(p)

\* n reads of read_f32 in a row: a vector, a colour or a quaternion
read_f32s(b, p, n) ==
    IF p + 4 * n <= Len(b)
    THEN Ok([i \in 1..n |-> SubSeq(b, p + 4 * i - 3, p + 4 * i)], p + 4 * n)
    ELSE Fail(p)

\* n reads of read_cstring in a row
RECURSIVE read_cstrings(_, _, _, _)
read_cstrings(b, p, n, acc) ==
    IF n = 0 THEN Ok(acc, p)
    ELSE LET Item(r) == read_cstrings(b, r.p, n - 1, Append(acc, r.v))
         IN Item(read_cstring(b, p))

\* FromPrimitive::from_u8 for ModelProperty: None stands for no variant
ModelProperty_from_u8(n) ==
    IF n \in (0..8) \cup {29, 30, 31, 32} THEN Some(n) ELSE None

\* read, one material: the path, then 36 bytes of fields in this order:
\* is_skin, alpha_enabled, two_sided, alpha test enabled, alpha ref,
\* z_test_enabled, z_write_enabled, blend mode, specular_enabled, alpha,
\* glow type, glow colour
zsc_read_material(b, p) ==
    LET Fields(path) ==
            LET u16(k) == b[path.p + k + 1] + 256 * b[path.p + k + 2]
                float(k) == SubSeq(b, path.p + k + 1, path.p + k + 4)
            IN IF path.p + 36 > Len(b) THEN Fail(path.p)
               ELSE Ok([path |-> path.v,
                        is_skin |-> u16(0) # 0,
                        alpha_enabled |-> u16(2) # 0,
                        two_sided |-> u16(4) # 0,
                        alpha_test |-> IF u16(6) # 0 THEN Some(u16(8) % 256) ELSE None,
                        z_test_enabled |-> u16(10) # 0,
                        z_write_enabled |-> u16(12) # 0,
                        blend_mode |-> IF u16(14) = 1 THEN Some(1) ELSE None,
                        specular_enabled |-> u16(16) # 0,
                        alpha |-> float(18),
                        glow |-> IF u16(22) \in 2..6
                                 THEN Some([glow_type |-> u16(22),
                                            color |-> <<float(24), float(28), float(32)>>])
                                 ELSE None],
                       path.p + 36)
    IN Fields(read_cstring(b, p))

RECURSIVE zsc_read_materials(_, _, _, _)
zsc_read_materials(b, p, n, acc) ==
    IF n = 0 THEN Ok(acc, p)
    ELSE LET Item(r) == IF ~r.ok THEN Fail(r.p)
                        ELSE zsc_read_materials(b, r.p, n - 1, Append(acc, r.v))
         IN Item(zsc_read_material(b, p))

\* read, up to the model count: the mesh, material and effect pools
zsc_read_head(b) ==
    LET Stop == [ok |-> FALSE, meshes |-> <<>>, materials |-> <<>>, effects |-> <<>>,
                 model_count |-> 0, p |-> 0]
        Models(rm, rmat, re, rc) ==
            IF ~rc.ok THEN Stop
            ELSE [ok |-> TRUE, meshes |-> rm.v, materials |-> rmat.v, effects |-> re.v,
                  model_count |-> rc.v, p |-> rc.p]
        Effects(rm, rmat, re) == Models(rm, rmat, re, read_u16(b, re.p))
        EffectCount(rm, rmat, rn) ==
            IF ~rn.ok THEN Stop ELSE Effects(rm, rmat, read_cstrings(b, rn.p, rn.v, <<>>))
        Materials(rm, rmat) ==
            IF ~rmat.ok THEN Stop ELSE EffectCount(rm, rmat, read_u16(b, rmat.p))
        MaterialCount(rm, rn) ==
            IF ~rn.ok THEN Stop ELSE Materials(rm, zsc_read_materials(b, rn.p, rn.v, <<>>))
        Meshes(rm) == MaterialCount(rm, read_u16(b, rm.p))
        MeshCount(rn) == IF ~rn.ok THEN Stop ELSE Meshes(read_cstrings(b, rn.p, rn.v, <<>>))
    IN MeshCount(read_u16(b, 0))

\* read, the property loop of a part from position p on. The result is
\* [st, v, p]: st is "ok", "err" (the stream ended), "invalid" (a Generic
\* error) or "panic"; v is the part so far
RECURSIVE zsc_read_part_properties(_, _, _)
zsc_read_part_properties(part, b, p) ==
    LET Stop(st, q) == [st |-> st, v |-> part, p |-> q]
        Value(tag, r) ==
            IF ~r.ok THEN Stop("err", r.p)
            \* ModelCollisionFlags::from_bits(flags).unwrap()
            ELSE IF tag = 29 /\ r.v - (r.v % 8) >= 256 THEN Stop("panic", r.p)
            ELSE zsc_read_part_properties(
                    CASE tag = 1 -> [part EXCEPT !.position = r.v]
                      [] tag = 2 -> [part EXCEPT !.rotation =
                                        [w |-> r.v[1], x |-> r.v[2], y |-> r.v[3], z |-> r.v[4]]]
                      [] tag = 3 -> [part EXCEPT !.scale = r.v]
                      [] tag = 4 -> part
                      [] tag = 5 -> IF r.v >= 0 THEN [part EXCEPT !.bone_index = Some(r.v)]
                                    ELSE part
                      [] tag = 6 -> IF r.v >= 0 THEN [part EXCEPT !.dummy_index = Some(r.v)]
                                    ELSE part
                      [] tag = 7 -> IF r.v > 0 THEN [part EXCEPT !.parent = Some(r.v - 1)]
                                    ELSE part
                      [] tag = 29 -> [part EXCEPT
                                        !.collision_shape =
                                            IF r.v % 8 \in 1..4 THEN Some(r.v % 8) ELSE None,
                                        !.collision_flags = r.v - (r.v % 8)]
                      [] tag = 30 -> [part EXCEPT !.animation_path = Some(r.v)]
                      [] tag = 31 -> IF r.v > 0 THEN [part EXCEPT !.range_set_id = Some(r.v)]
                                     ELSE part
                      [] tag = 32 -> [part EXCEPT !.use_lightmap = r.v],
                    b, r.p)
        Size(tag, rs) ==
            IF ~rs.ok THEN Stop("err", rs.p)
            \* ModelProperty::Animation has no handler
            ELSE IF tag = 8 THEN Stop("invalid", rs.p)
            ELSE Value(tag,
                       CASE tag \in {1, 3} -> read_f32s(b, rs.p, 3)
                         [] tag \in {2, 4} -> read_f32s(b, rs.p, 4)
                         [] tag \in {5, 6, 7, 31} -> read_i16(b, rs.p)
                         [] tag = 29 -> read_u16(b, rs.p)
                         [] tag = 30 -> read_string(b, rs.p, rs.v)
                         [] tag = 32 -> read_bool16(b, rs.p))
        Tag(rt) ==
            IF ~rt.ok THEN Stop("err", rt.p)
            ELSE IF ModelProperty_from_u8(rt.v) = None THEN Stop("invalid", rt.p)
            ELSE IF rt.v = 0 THEN Stop("ok", rt.p)
            ELSE Size(rt.v, read_u8(b, rt.p))
    IN Tag(read_u8(b, p))

\* read, the property loop of a dummy point: as for a part, but every
\* ModelProperty other than Position, Rotation, Scale and Parent is stepped
\* over by its size
RECURSIVE zsc_read_dummy_properties(_, _, _)
zsc_read_dummy_properties(dummy_point, b, p) ==
    LET Stop(st, q) == [st |-> st, v |-> dummy_point, p |-> q]
        Value(tag, r) ==
            IF ~r.ok THEN Stop("err", r.p)
            ELSE zsc_read_dummy_properties(
                    CASE tag = 1 -> [dummy_point EXCEPT !.position = r.v]
                      [] tag = 2 -> [dummy_point EXCEPT !.rotation =
                                        [w |-> r.v[1], x |-> r.v[2], y |-> r.v[3], z |-> r.v[4]]]
                      [] tag = 3 -> [dummy_point EXCEPT !.scale = r.v]
                      [] tag = 7 -> IF r.v > 0 THEN [dummy_point EXCEPT !.parent = Some(r.v - 1)]
                                    ELSE dummy_point,
                    b, r.p)
        Size(tag, rs) ==
            IF ~rs.ok THEN Stop("err", rs.p)
            ELSE IF tag \in {1, 3} THEN Value(tag, read_f32s(b, rs.p, 3))
            ELSE IF tag = 2 THEN Value(tag, read_f32s(b, rs.p, 4))
            ELSE IF tag = 7 THEN Value(tag, read_i16(b, rs.p))
            \* seek(SeekFrom::Current(size)): a Cursor may be moved past its end
            ELSE zsc_read_dummy_properties(dummy_point, b, rs.p + rs.v)
        Tag(rt) ==
            IF ~rt.ok THEN Stop("err", rt.p)
            ELSE IF ModelProperty_from_u8(rt.v) = None THEN Stop("invalid", rt.p)
            ELSE IF rt.v = 0 THEN Stop("ok", rt.p)
            ELSE Size(rt.v, read_u8(b, rt.p))
    IN Tag(read_u8(b, p))

\* read, the part loop: n more parts from position p on, acc the parts read
RECURSIVE zsc_read_parts(_, _, _, _, _)
zsc_read_parts(b, p, n, pools, acc) ==
    LET Stop(st, q) == [st |-> st, v |-> acc, p |-> q]
        Pushed(r) ==
            IF r.st # "ok" THEN Stop(r.st, r.p)
            ELSE zsc_read_parts(b, r.p, n - 1, pools, Append(acc, r.v))
        Material(mesh_index, r) ==
            IF ~r.ok THEN Stop("err", r.p)
            \* meshes[mesh_index as usize], materials[material_index as usize]
            ELSE IF mesh_index < 0 \/ mesh_index >= Len(pools.meshes) THEN Stop("panic", r.p)
            ELSE IF r.v >= Len(pools.materials) THEN Stop("panic", r.p)
            ELSE Pushed(zsc_read_part_properties(
                            [ModelPart_default EXCEPT
                                !.mesh_path = pools.meshes[mesh_index + 1],
                                !.material = IF r.v >= 0 THEN Some(pools.materials[r.v + 1])
                                             ELSE None],
                            b, r.p))
        Mesh(r) == IF ~r.ok THEN Stop("err", r.p) ELSE Material(r.v, read_i16(b, r.p))
    IN IF n = 0 THEN Stop("ok", p) ELSE Mesh(read_i16(b, p))

\* read, the dummy point loop
RECURSIVE zsc_read_dummy_points(_, _, _, _, _)
zsc_read_dummy_points(b, p, n, pools, acc) ==
    LET Stop(st, q) == [st |-> st, v |-> acc, p |-> q]
        Pushed(r) ==
            IF r.st # "ok" THEN Stop(r.st, r.p)
            ELSE zsc_read_dummy_points(b, r.p, n - 1, pools, Append(acc, r.v))
        Type(effect_file_id, r) ==
            IF ~r.ok THEN Stop("err", r.p)
            ELSE IF r.v \in 0..2 /\ effect_file_id >= Len(pools.effects) THEN Stop("panic", r.p)
            ELSE Pushed(zsc_read_dummy_properties(
                            [ModelDummyPoint_default EXCEPT
                                !.attachment =
                                    IF r.v \in 0..2 /\ effect_file_id >= 0
                                       /\ pools.effects[effect_file_id + 1] # <<>>
                                    THEN IF r.v = 2
                                         THEN Some([kind |-> "Light",
                                                    name |-> pools.effects[effect_file_id + 1]])
                                         ELSE Some([kind |-> "Effect",
                                                    path |-> pools.effects[effect_file_id + 1],
                                                    only_visible_at_night |-> r.v = 1])
                                    ELSE None],
                            b, r.p))
        Effect(r) == IF ~r.ok THEN Stop("err", r.p) ELSE Type(r.v, read_u16(b, r.p))
    IN IF n = 0 THEN Stop("ok", p) ELSE Effect(read_i16(b, p))

\* read, one round of the model loop: the slot pushed onto self.models
zsc_read_model(b, p, pools) ==
    LET Stop(st, q) == [st |-> st, v |-> None, p |-> q]
        Box(radius, cx, cy, parts, dummy_points, r) ==
            IF ~r.ok THEN Stop("err", r.p)
            ELSE [st |-> "ok", p |-> r.p,
                  v |-> Some([bounding_cylinder |->
                                  [radius |-> u32_as_f32(radius), center |-> <<cx, cy>>],
                              parts |-> parts,
                              dummy_points |-> dummy_points,
                              bounding_box |-> [min |-> <<r.v[1], r.v[2], r.v[3]>>,
                                                max |-> <<r.v[4], r.v[5], r.v[6]>>]])]
        DummyPoints(radius, cx, cy, parts, r) ==
            IF r.st # "ok" THEN Stop(r.st, r.p)
            ELSE Box(radius, cx, cy, parts, r.v,
                     read_f32s(b, r.p, 6))
        DummyCount(radius, cx, cy, rparts, r) ==
            IF ~r.ok THEN Stop("err", r.p)
            ELSE DummyPoints(radius, cx, cy, rparts.v,
                             zsc_read_dummy_points(b, r.p, r.v, pools, <<>>))
        Parts(radius, cx, cy, r) ==
            IF r.st # "ok" THEN Stop(r.st, r.p)
            ELSE DummyCount(radius, cx, cy, r, read_u16(b, r.p))
        PartCount(radius, cx, cy, r) ==
            IF ~r.ok THEN Stop("err", r.p)
            ELSE IF r.v = 0 THEN [st |-> "ok", v |-> None, p |-> r.p]
            ELSE Parts(radius, cx, cy, zsc_read_parts(b, r.p, r.v, pools, <<>>))
        CenterY(radius, cx, r) ==
            IF ~r.ok THEN Stop("err", r.p) ELSE PartCount(radius, cx, r.v, read_u16(b, r.p))
        CenterX(radius, r) ==
            IF ~r.ok THEN Stop("err", r.p) ELSE CenterY(radius, r.v, read_i32(b, r.p))
        Radius(r) == IF ~r.ok THEN Stop("err", r.p) ELSE CenterX(r.v, read_i32(b, r.p))
    IN Radius(read_u32(b, p))

(***************************************************************************)
(* The text form of a Model (ZSCTXT): Model::write prints lines of words,  *)
(* Model::read takes the text line by line and splits each line at white  *)
(* space.  A text is its sequence of bytes.                                *)
(***************************************************************************)

\* the words of the text form, as the bytes of their ASCII spelling
Word ==
    [numobj |-> <<110, 117, 109, 111, 98, 106>>,
     obj |-> <<111, 98, 106>>,
     numpoint |-> <<110, 117, 109, 112, 111, 105, 110, 116>>,
     numpoints |-> <<110, 117, 109, 112, 111, 105, 110, 116, 115>>,
     part |-> <<112, 97, 114, 116>>,
     point |-> <<112, 111, 105, 110, 116>>,
     cylinder |-> <<99, 121, 108, 105, 110, 100, 101, 114>>,
     pos |-> <<112, 111, 115>>,
     rot |-> <<114, 111, 116>>,
     scale |-> <<115, 99, 97, 108, 101>>,
     parent |-> <<112, 97, 114, 101, 110, 116>>,
     mesh |-> <<109, 101, 115, 104>>,
     mat |-> <<109, 97, 116>>,
     isskin |-> <<105, 115, 115, 107, 105, 110>>,
     alpha |-> <<97, 108, 112, 104, 97>>,
     twoside |-> <<116, 119, 111, 115, 105, 100, 101>>,
     alphatest |-> <<97, 108, 112, 104, 97, 116, 101, 115, 116>>,
     alpharef |-> <<97, 108, 112, 104, 97, 114, 101, 102>>,
     ztest |-> <<122, 116, 101, 115, 116>>,
     zwrite |-> <<122, 119, 114, 105, 116, 101>>,
     blendtype |-> <<98, 108, 101, 110, 100, 116, 121, 112, 101>>,
     specular |-> <<115, 112, 101, 99, 117, 108, 97, 114>>,
     alphavalue |-> <<97, 108, 112, 104, 97, 118, 97, 108, 117, 101>>,
     glowtype |-> <<103, 108, 111, 119, 116, 121, 112, 101>>,
     glowcolor |-> <<103, 108, 111, 119, 99, 111, 108, 111, 114>>,
     linkdummy |-> <<108, 105, 110, 107, 100, 117, 109, 109, 121>>,
     bonenumber |-> <<98, 111, 110, 101, 110, 117, 109, 98, 101, 114>>,
     collision |-> <<99, 111, 108, 108, 105, 115, 105, 111, 110>>,
     anim |-> <<97, 110, 105, 109>>,
     rangeset |-> <<114, 97, 110, 103, 101, 115, 101, 116>>,
     uselightmap |-> <<117, 115, 101, 108, 105, 103, 104, 116, 109, 97, 112>>,
     effect |-> <<101, 102, 102, 101, 99, 116>>,
     type |-> <<116, 121, 112, 101>>]

\* Display for the integer types: decimal digits, a minus sign first for a
\* negative number
RECURSIVE fmt_int(_)
fmt_int(n) ==
    IF n < 0 THEN <<45>> \o fmt_int(-n)
    ELSE IF n < 10 THEN <<48 + n>>
    ELSE fmt_int(n \div 10) \o <<48 + (n % 10)>>

\* Display for f32 on the values the model uses: the shortest decimal that
\* parses back to the same f32, without exponent
fmt_f32(f) ==
    CASE f = f32("0.0") -> <<48>>
      [] f = f32("-0.0") -> <<45, 48>>
      [] f = f32("0.5") -> <<48, 46, 53>>
      [] f = f32("1.0") -> <<49>>
      [] f = f32("-1.0") -> <<45, 49>>
      [] f = f32("2.0") -> <<50>>
      [] f = f32("2.5") -> <<50, 46, 53>>
      [] f = f32("1.0-8ulp") -> <<48, 46, 57, 57, 57, 57, 57, 57, 53>>

\* str::parse for the integer types T ("i32", "u32", "u8"): an optional sign,
\* + for all and - for i32 only, then one digit or more, and the value within
\* the range of T; None stands for Err. Digit strings of more than 9 digits
\* are beyond the texts modelled and count as out of range.
parse_int(word, T) ==
    LET signed == word # <<>> /\ (word[1] = 43 \/ (T = "i32" /\ word[1] = 45))
        digits == IF signed THEN Tail(word) ELSE word
        RECURSIVE value(_)
        value(d) == IF d = <<>> THEN 0
                    ELSE 10 * value(SubSeq(d, 1, Len(d) - 1)) + (d[Len(d)] - 48)
        Ranged(n) == IF T = "u8" /\ n > 255 THEN None ELSE Some(n)
    IN IF digits = <<>> \/ Len(digits) > 9 \/ \E i \in 1..Len(digits) : digits[i] \notin 48..57
       THEN None
       ELSE IF signed /\ word[1] = 45 THEN Ranged(-value(digits))
       ELSE Ranged(value(digits))

\* str::parse::<f32> on the spellings the texts of the model hold: those
\* Display produces, a decimal integer, and the same with ".0"; None stands
\* for Err
parse_f32(word) ==
    CASE word = <<48>> -> Some(f32("0.0"))
      [] word = <<48, 46, 48>> -> Some(f32("0.0"))
      [] word = <<45, 48>> -> Some(f32("-0.0"))
      [] word = <<48, 46, 53>> -> Some(f32("0.5"))
      [] word = <<49>> -> Some(f32("1.0"))
      [] word = <<49, 46, 48>> -> Some(f32("1.0"))
      [] word = <<43, 49>> -> Some(f32("1.0"))
      [] word = <<45, 49>> -> Some(f32("-1.0"))
      [] word = <<50>> -> Some(f32("2.0"))
      [] word = <<50, 46, 48>> -> Some(f32("2.0"))
      [] word = <<50, 46, 53>> -> Some(f32("2.5"))
      [] word = <<48, 46, 57, 57, 57, 57, 57, 57, 53>> -> Some(f32("1.0-8ulp"))
      [] OTHER -> None

\* BufRead::read_line at position p: the bytes up to and including the next
\* line feed, or up to the end of the text; an empty line means end of input
read_line(b, p) ==
    LET Upto(end) == [line |-> SubSeq(b, p + 1, end), p |-> end]
    IN IF \E i \in (p + 1)..Len(b) : b[i] = 10
       THEN Upto(CHOOSE i \in (p + 1)..Len(b) :
                    b[i] = 10 /\ \A j \in (p + 1)..(i - 1) : b[j] # 10)
       ELSE Upto(Len(b))

\* str::split_whitespace on ASCII text: the maximal runs of bytes that are
\* not white space, in order
split_whitespace(line) ==
    LET ws(c) == c \in {9, 10, 11, 12, 13, 32}
        starts == {i \in 1..Len(line) : ~ws(line[i]) /\ (i = 1 \/ ws(line[i - 1]))}
        From(i) == SubSeq(line, i,
                          CHOOSE j \in i..Len(line) :
                              /\ j = Len(line) \/ ws(line[j + 1])
                              /\ \A m \in i..j : ~ws(line[m]))
    IN [k \in 1..Cardinality(starts) |->
          From(CHOOSE i \in starts : Cardinality({j \in starts : j < i}) = k - 1)]

\* parse::<T>(words, idx) of Model::read, idx counted from 0: st is "ok",
\* "Parameter" (the word is missing) or "Value" (it does not parse)
parse(words, idx, T) ==
    LET Parsed(v) == IF v = None THEN [st |-> "Value", v |-> 0] ELSE [st |-> "ok", v |-> v[1]]
    IN IF idx >= Len(words) THEN [st |-> "Parameter", v |-> 0]
       ELSE Parsed(IF T = "f32" THEN parse_f32(words[idx + 1])
                   ELSE parse_int(words[idx + 1], T))

\* the ? after each of several parse calls made in the order idxs: st of the
\* first that fails, else the values in that order
parse_all(words, idxs, T) ==
    LET Results(r) ==
            IF \E k \in 1..Len(r) : r[k].st # "ok"
            THEN [st |-> r[CHOOSE k \in 1..Len(r) :
                              r[k].st # "ok" /\ \A j \in 1..(k - 1) : r[j].st = "ok"].st,
                  v |-> <<>>]
            ELSE [st |-> "ok", v |-> [k \in 1..Len(r) |-> r[k].v]]
    IN Results([k \in 1..Len(idxs) |-> parse(words, idxs[k], T)])

\* Model::write, the pos, rot and scale lines of a part or a dummy point:
\* scale is printed unless all three components are 0
Model_write_transform(x) ==
    (IF \E i \in 1..3 : ~f32_is_zero(x.position[i])
     THEN <<9>> \o Word.pos \o <<32>> \o fmt_f32(x.position[1]) \o <<32>>
          \o fmt_f32(x.position[2]) \o <<32>> \o fmt_f32(x.position[3]) \o <<10>>
     ELSE <<>>)
    \o (IF ~is_near_identity(x.rotation)
        THEN <<9>> \o Word.rot \o <<32>> \o fmt_f32(x.rotation.w) \o <<32>>
             \o fmt_f32(x.rotation.x) \o <<32>> \o fmt_f32(x.rotation.y) \o <<32>>
             \o fmt_f32(x.rotation.z) \o <<10>>
        ELSE <<>>)
    \o (IF \E i \in 1..3 : ~f32_is_zero(x.scale[i])
        THEN <<9>> \o Word.scale \o <<32>> \o fmt_f32(x.scale[1]) \o <<32>>
             \o fmt_f32(x.scale[2]) \o <<32>> \o fmt_f32(x.scale[3]) \o <<10>>
        ELSE <<>>)

\* Model::write, the mat line of a part and the lines under it
Model_write_material(material) ==
    LET Line(word, value) == <<9, 9>> \o word \o <<32>> \o value \o <<10>>
    IN <<9>> \o Word.mat \o <<32>> \o material.path \o <<10>>
       \o (IF material.is_skin THEN Line(Word.isskin, fmt_int(1)) ELSE <<>>)
       \o (IF ~f32_is_zero(material.alpha) THEN Line(Word.alpha, fmt_f32(material.alpha))
           ELSE <<>>)
       \o (IF material.two_sided THEN Line(Word.twoside, fmt_int(1)) ELSE <<>>)
       \o (IF material.alpha_test # None
           THEN Line(Word.alphatest, fmt_int(1))
                \o Line(Word.alpharef, fmt_int(material.alpha_test[1]))
           ELSE <<>>)
       \o (IF ~material.z_test_enabled THEN Line(Word.ztest, fmt_int(0)) ELSE <<>>)
       \o (IF ~material.z_write_enabled THEN Line(Word.zwrite, fmt_int(0)) ELSE <<>>)
       \o (IF material.blend_mode # None
           THEN Line(Word.blendtype, fmt_int(material.blend_mode[1])) ELSE <<>>)
       \o (IF material.specular_enabled THEN Line(Word.specular, fmt_int(1)) ELSE <<>>)
       \o (IF material.alpha # f32("1.0") THEN Line(Word.alpha, fmt_f32(material.alpha))
           ELSE <<>>)
       \o (IF material.glow # None
           THEN Line(Word.glowtype, fmt_int(material.glow[1].glow_type))
                \o Line(Word.glowcolor,
                        fmt_f32(material.glow[1].color[1]) \o <<32>>
                        \o fmt_f32(material.glow[1].color[2]) \o <<32>>
                        \o fmt_f32(material.glow[1].color[3]))
           ELSE <<>>)

\* Model::write, one round of the part loop; part_index counts from 0
Model_write_part(part, part_index) ==
    LET Line(word, value) == <<9>> \o word \o <<32>> \o value \o <<10>>
        Optional(field, word) ==
            IF field # None THEN Line(word, fmt_int(field[1])) ELSE <<>>
    IN <<10>>
       \o Line(Word.part, fmt_int(part_index + 1))
       \o Line(Word.mesh, part.mesh_path)
       \o Model_write_transform(part)
       \o (IF part.collision_shape # None
           THEN Line(Word.collision, fmt_int(part.collision_shape[1] + part.collision_flags))
           ELSE <<>>)
       \o (IF part.animation_path # None THEN Line(Word.anim, part.animation_path[1])
           ELSE <<>>)
       \o (IF part.parent # None THEN Line(Word.parent, fmt_int(part.parent[1] + 1))
           ELSE <<>>)
       \o Optional(part.dummy_index, Word.linkdummy)
       \o Optional(part.bone_index, Word.bonenumber)
       \o Optional(part.range_set_id, Word.rangeset)
       \o (IF part.use_lightmap THEN Line(Word.uselightmap, fmt_int(1)) ELSE <<>>)
       \o (IF part.material # None THEN Model_write_material(part.material[1]) ELSE <<>>)

\* Model::write, one round of the dummy point loop; index counts from 0
Model_write_dummy_point(dummy_point, index) ==
    LET Line(word, value) == <<9>> \o word \o <<32>> \o value \o <<10>>
    IN <<10>>
       \o Line(Word.point, fmt_int(index + 1))
       \o (IF dummy_point.attachment = None
           THEN Line(Word.effect, <<>>) \o Line(Word.type, fmt_int(0))
           ELSE Line(Word.effect, attachment_file(dummy_point.attachment[1]))
                \o Line(Word.type,
                        fmt_int(IF dummy_point.attachment[1].kind = "Light" THEN 2
                                ELSE IF dummy_point.attachment[1].only_visible_at_night THEN 1
                                ELSE 0)))
       \o Model_write_transform(dummy_point)
       \o (IF dummy_point.parent # None
           THEN Line(Word.parent, fmt_int(dummy_point.parent[1] + 1)) ELSE <<>>)

\* Model::write: the text of a model
Model_write(self) ==
    Word.numobj \o <<32>> \o fmt_int(Len(self.parts)) \o <<10>>
    \o (IF \/ ~f32_is_zero(self.bounding_cylinder.radius)
           \/ self.bounding_cylinder.center[1] # 0
           \/ self.bounding_cylinder.center[2] # 0
        THEN Word.cylinder \o <<32>> \o fmt_int(self.bounding_cylinder.center[1]) \o <<32>>
             \o fmt_int(self.bounding_cylinder.center[2]) \o <<32>>
             \o fmt_f32(self.bounding_cylinder.radius) \o <<10>>
        ELSE <<>>)
    \o Concat([i \in 1..Len(self.parts) |-> Model_write_part(self.parts[i], i - 1)])
    \o (IF self.dummy_points # <<>>
        THEN <<10>> \o Word.numpoints \o <<32>> \o fmt_int(Len(self.dummy_points)) \o <<10>>
        ELSE <<>>)
    \o Concat([i \in 1..Len(self.dummy_points) |->
                  Model_write_dummy_point(self.dummy_points[i], i - 1)])

\* complete_object that pushes the record as the lines left it, without the
\* halves kept beside it
complete_object_without_halves(self, parse_object) ==
    IF parse_object = None THEN self
    ELSE IF parse_object[1].kind = "Part"
    THEN [self EXCEPT !.parts = Append(@, parse_object[1].part)]
    ELSE [self EXCEPT !.dummy_points = Append(@, parse_object[1].dummy)]

\* complete_object: the provisional record, if there is one, is finished and
\* pushed onto the model
complete_object(self, parse_object) ==
    LET Glow(part, material) ==
            [self EXCEPT !.parts =
                Append(@, [part EXCEPT !.material =
                              IF material # None /\ material[1].glow # None
                              THEN Some([material[1] EXCEPT !.glow =
                                            Some([@[1] EXCEPT
                                                    !.color = parse_object[1].glow_color])])
                              ELSE material])]
    IN IF parse_object = None THEN self
       ELSE IF parse_object[1].kind = "Part"
       THEN Glow(parse_object[1].part,
                 IF parse_object[1].alpha_test /\ parse_object[1].part.material # None
                 THEN Some([parse_object[1].part.material[1] EXCEPT
                               !.alpha_test = Some(parse_object[1].alpha_ref)])
                 ELSE parse_object[1].part.material)
       ELSE [self EXCEPT !.dummy_points =
                Append(@, [parse_object[1].dummy EXCEPT !.attachment =
                              IF @ = None THEN None
                              ELSE IF @[1].kind = "Light"
                              THEN Some([@[1] EXCEPT !.name = parse_object[1].effect])
                              ELSE Some([@[1] EXCEPT !.path = parse_object[1].effect])])]

\* the outcome of one line: st is "ok", "panic" or the kind of the Generic
\* error returned: "Parameter", "Value", "Path", "Enum", "Outside" (of an obj
\* or point), "ForDummy" or "ForPart"
Outcome(st, self, parse_object) ==
    [st |-> st, self |-> self, parse_object |-> parse_object]

\* parse_part_property with an assign_fn that sets one field of the part
parse_part_property(self, parse_object, field, value) ==
    IF parse_object = None THEN Outcome("Outside", self, parse_object)
    ELSE IF parse_object[1].kind = "Dummy" THEN Outcome("ForDummy", self, parse_object)
    ELSE Outcome("ok", self, Some([parse_object[1] EXCEPT !.part[field] = value]))

\* parse_point_property with an assign_fn that sets one field of the point
parse_point_property(self, parse_object, field, value) ==
    IF parse_object = None THEN Outcome("Outside", self, parse_object)
    ELSE IF parse_object[1].kind = "Part" THEN Outcome("ForPart", self, parse_object)
    ELSE Outcome("ok", self, Some([parse_object[1] EXCEPT !.dummy[field] = value]))

\* parse_part_material_property: the field is set in the part's material,
\* which becomes the default material first if the part has none
parse_part_material_property(self, parse_object, field, value) ==
    IF parse_object = None THEN Outcome("Outside", self, parse_object)
    ELSE IF parse_object[1].kind = "Dummy" THEN Outcome("ForDummy", self, parse_object)
    ELSE Outcome("ok", self,
              Some([parse_object[1] EXCEPT !.part.material =
                       Some([(IF @ = None THEN ModelMaterial_default ELSE @[1])
                                EXCEPT ![field] = value])]))

\* Model::read, the lines pos, rot, scale and parent, which an obj and a
\* point both take
Model_read_transform(self, parse_object, words) ==
    LET Set(field, r, value) ==
            IF r.st # "ok" THEN Outcome(r.st, self, parse_object)
            ELSE IF parse_object = None THEN Outcome("Outside", self, parse_object)
            ELSE IF parse_object[1].kind = "Part"
            THEN Outcome("ok", self, Some([parse_object[1] EXCEPT !.part[field] = value]))
            ELSE Outcome("ok", self, Some([parse_object[1] EXCEPT !.dummy[field] = value]))
        Vector(field, r) ==
            Set(field, r, IF r.st = "ok" THEN <<r.v[1], r.v[2], r.v[3]>> ELSE <<>>)
        Rotation(r) ==
            Set("rotation", r,
                IF r.st = "ok" THEN [x |-> r.v[1], y |-> r.v[2], z |-> r.v[3], w |-> r.v[4]]
                ELSE <<>>)
        Parent(r) ==
            IF r.st = "ok" /\ parse_object # None /\ r.v <= 0
            THEN Outcome("ok", self, parse_object)
            ELSE Set("parent", r, Some((r.v - 1) % 65536))
    IN CASE words[1] = Word.pos -> Vector("position", parse_all(words, <<1, 2, 3>>, "f32"))
         [] words[1] = Word.rot -> Rotation(parse_all(words, <<2, 3, 4, 1>>, "f32"))
         [] words[1] = Word.scale -> Vector("scale", parse_all(words, <<1, 2, 3>>, "f32"))
         [] words[1] = Word.parent -> Parent(parse(words, 1, "i32"))

\* Model::read, the lines that only an obj takes, the material lines apart
Model_read_part(self, parse_object, words) ==
    LET Stop(st) == Outcome(st, self, parse_object)
        Index(field, r) ==
            IF r.st # "ok" THEN Stop(r.st)
            ELSE IF r.v < 0 THEN Stop("ok")
            ELSE parse_part_property(self, parse_object, field, Some(r.v % 65536))
        Flags(r, flags) ==
            IF r.st # "ok" THEN r
            ELSE parse_part_property(self, r.parse_object, "collision_flags", flags)
        Collision(r) ==
            IF r.st # "ok" THEN Stop(r.st)
            \* ModelCollisionFlags::from_bits(flags).unwrap()
            ELSE IF r.v - (r.v % 8) >= 256 THEN Stop("panic")
            ELSE IF r.v % 8 \notin 1..4 THEN Stop("ok")
            ELSE Flags(parse_part_property(self, parse_object, "collision_shape",
                                           Some(r.v % 8)),
                       r.v - (r.v % 8))
        Range(r) ==
            IF r.st # "ok" THEN Stop(r.st)
            ELSE IF r.v <= 0 THEN Stop("ok")
            ELSE parse_part_property(self, parse_object, "range_set_id", Some(r.v % 65536))
        Lightmap(r) ==
            IF r.st # "ok" THEN Stop(r.st)
            ELSE parse_part_property(self, parse_object, "use_lightmap", r.v # 0)
    IN CASE words[1] = Word.mesh ->
                IF Len(words) < 2 THEN Stop("Path")
                ELSE parse_part_property(self, parse_object, "mesh_path", words[2])
         [] words[1] = Word.linkdummy -> Index("dummy_index", parse(words, 1, "i32"))
         [] words[1] = Word.bonenumber -> Index("bone_index", parse(words, 1, "i32"))
         [] words[1] = Word.collision -> Collision(parse(words, 1, "u32"))
         [] words[1] = Word.anim ->
                parse_part_property(self, parse_object, "animation_path",
                                    IF Len(words) < 2 THEN None ELSE Some(words[2]))
         [] words[1] = Word.rangeset -> Range(parse(words, 1, "i32"))
         [] words[1] = Word.uselightmap -> Lightmap(parse(words, 1, "i32"))

\* Model::read, the mat line and the lines of the material
Model_read_material(self, parse_object, words) ==
    LET Stop(st) == Outcome(st, self, parse_object)
        Flag(field, r) ==
            IF r.st # "ok" THEN Stop(r.st)
            ELSE parse_part_material_property(self, parse_object, field, r.v # 0)
        \* alphatest, alpharef and glowcolor are kept beside the part
        Beside(field, T, idxs) ==
            LET Kept(r) ==
                    IF r.st # "ok" THEN Stop(r.st)
                    ELSE Outcome("ok", self,
                                 Some([parse_object[1] EXCEPT ![field] =
                                          IF field = "alpha_test" THEN r.v[1] # 0
                                          ELSE IF field = "alpha_ref" THEN r.v[1]
                                          ELSE <<r.v[1], r.v[2], r.v[3]>>]))
            IN IF parse_object = None THEN Stop("Outside")
               ELSE IF parse_object[1].kind = "Dummy" THEN Stop("ForDummy")
               ELSE Kept(parse_all(words, idxs, T))
        Blend(r) ==
            IF r.st # "ok" THEN Stop(r.st)
            ELSE IF r.v \notin {0, 1} THEN Stop("Enum")
            ELSE parse_part_material_property(self, parse_object, "blend_mode",
                                              IF r.v = 1 THEN Some(1) ELSE None)
        Alpha(r) ==
            IF r.st # "ok" THEN Stop(r.st)
            ELSE parse_part_material_property(self, parse_object, "alpha", r.v)
        Glow(r) ==
            IF r.st # "ok" THEN Stop(r.st)
            ELSE IF r.v = 0 THEN Stop("ok")
            ELSE IF r.v \notin 2..6 THEN Stop("Enum")
            ELSE parse_part_material_property(self, parse_object, "glow",
                                              Some([glow_type |-> r.v, color |-> Vector3_ONE]))
    IN CASE words[1] = Word.mat ->
                IF Len(words) < 2 THEN Stop("Path")
                ELSE parse_part_material_property(self, parse_object, "path", words[2])
         [] words[1] = Word.isskin -> Flag("is_skin", parse(words, 1, "i32"))
         [] words[1] = Word.alpha -> Flag("alpha_enabled", parse(words, 1, "i32"))
         [] words[1] = Word.twoside -> Flag("two_sided", parse(words, 1, "i32"))
         [] words[1] = Word.alphatest -> Beside("alpha_test", "i32", <<1>>)
         [] words[1] = Word.alpharef -> Beside("alpha_ref", "u8", <<1>>)
         [] words[1] = Word.ztest -> Flag("z_test_enabled", parse(words, 1, "i32"))
         [] words[1] = Word.zwrite -> Flag("z_write_enabled", parse(words, 1, "i32"))
         [] words[1] = Word.blendtype -> Blend(parse(words, 1, "u32"))
         [] words[1] = Word.specular -> Flag("specular_enabled", parse(words, 1, "i32"))
         [] words[1] = Word.alphavalue -> Alpha(parse(words, 1, "f32"))
         [] words[1] = Word.glowtype -> Glow(parse(words, 1, "u32"))
         [] words[1] = Word.glowcolor -> Beside("glow_color", "f32", <<1, 2, 3>>)

\* Model::read, the body of the loop for one line split into words: blank
\* lines, comments and unknown words change nothing
Model_read_line(self, parse_object, words) ==
    LET Stop(st) == Outcome(st, self, parse_object)
        Count(r) == Stop(r.st)
        \* each coordinate is stored before the next one is parsed
        Radius(s, r) ==
            IF r.st # "ok" THEN Outcome(r.st, s, parse_object)
            ELSE Outcome("ok", [s EXCEPT !.bounding_cylinder.radius = r.v], parse_object)
        CenterY(s, r) ==
            IF r.st # "ok" THEN Outcome(r.st, s, parse_object)
            ELSE Radius([s EXCEPT !.bounding_cylinder.center[2] = r.v], parse(words, 3, "f32"))
        CenterX(r) ==
            IF r.st # "ok" THEN Stop(r.st)
            ELSE CenterY([self EXCEPT !.bounding_cylinder.center[1] = r.v],
                         parse(words, 2, "i32"))
        Effect ==
            IF parse_object = None THEN Stop("Outside")
            ELSE IF parse_object[1].kind = "Part" THEN Stop("ForPart")
            ELSE IF Len(words) < 2 THEN Stop("ok")
            ELSE Outcome("ok", self, Some([parse_object[1] EXCEPT !.effect = words[2]]))
        Type(r) ==
            IF r.st # "ok" THEN Stop(r.st)
            ELSE IF r.v > 2 THEN Stop("ok")
            ELSE parse_point_property(
                    self, parse_object, "attachment",
                    IF r.v = 2 THEN Some([kind |-> "Light", name |-> <<>>])
                    ELSE Some([kind |-> "Effect", path |-> <<>>,
                               only_visible_at_night |-> r.v = 1]))
    IN IF words = <<>> THEN Stop("ok")
       ELSE IF Len(words[1]) >= 2 /\ words[1][1] = 47 /\ words[1][2] = 47 THEN Stop("ok")
       ELSE CASE words[1] = Word.numobj -> Count(parse(words, 1, "i32"))
              [] words[1] = Word.obj ->
                    Outcome("ok", complete_object(self, parse_object),
                            Some([kind |-> "Part", part |-> ModelPart_default,
                                  alpha_ref |-> 128, alpha_test |-> FALSE,
                                  glow_color |-> Vector3_ONE]))
              [] words[1] = Word.numpoint -> Count(parse(words, 1, "i32"))
              [] words[1] = Word.point ->
                    Outcome("ok", complete_object(self, parse_object),
                            Some([kind |-> "Dummy", dummy |-> ModelDummyPoint_default,
                                  effect |-> <<>>]))
              [] words[1] = Word.cylinder -> CenterX(parse(words, 1, "i32"))
              [] words[1] \in {Word.pos, Word.rot, Word.scale, Word.parent} ->
                    Model_read_transform(self, parse_object, words)
              [] words[1] \in {Word.mesh, Word.linkdummy, Word.bonenumber, Word.collision,
                               Word.anim, Word.rangeset, Word.uselightmap} ->
                    Model_read_part(self, parse_object, words)
              [] words[1] \in {Word.mat, Word.isskin, Word.alpha, Word.twoside,
                               Word.alphatest, Word.alpharef, Word.ztest, Word.zwrite,
                               Word.blendtype, Word.specular, Word.alphavalue,
                               Word.glowtype, Word.glowcolor} ->
                    Model_read_material(self, parse_object, words)
              [] words[1] = Word.effect -> Effect
              [] words[1] = Word.type -> Type(parse(words, 1, "u32"))
              [] OTHER -> Stop("ok")

(***************************************************************************)
(* The tables handed to DataTable::write, and the driver: write into an    *)
(* empty Cursor, one action per stage of write, then set_position(0) and   *)
(* read into DataTable::new().                                             *)
(***************************************************************************)
MaxRows == 2
MaxCols == 2

\* cell texts: empty, two bytes, and one that ends in a NUL byte
CellTexts == {<<>>, <<97, 98>>, <<99, 0>>}

HeaderRow(c, shared) ==
    [i \in 1..c |-> [name |-> <<104, 48 + i>>, width |-> IF shared THEN 64 ELSE 64 + i]]

DataTables ==
    UNION {
        { [identifier |-> id, header_row_height |-> 100, header_row_name |-> <<110>>,
           headers |-> HeaderRow(c, shared), data |-> d, row_height |-> 40] :
            \* the two sub-versions and an identifier that is neither
            id \in {STB0, STB1, <<83, 84, 66, 50>>}, shared \in BOOLEAN,
            d \in UNION { [1..r -> [1..c -> CellTexts]] : r \in 0..MaxRows } }
        : c \in 1..MaxCols }

NoRead == [status |-> "none", self |-> <<>>]

InitStb ==
    /\ pc = "init"
    /\ val \in DataTables
    /\ buf = <<>>
    /\ pos = 0
    /\ aux = [offset |-> 0]
    /\ out = NoRead

StbStage(from, to, bytes) ==
    /\ pc = from
    /\ pc' = to
    /\ LET w == Put([b |-> buf, p |-> pos], bytes)
       IN buf' = w.b /\ pos' = w.p
    /\ UNCHANGED <<val, aux, out>>

StbWriteStart == StbStage("init", "placeholder", DataTable_write_start(val))

StbWriteHead == StbStage("placeholder", "head", DataTable_write_head(val))

\* let offset = writer.stream_position()
StbRecordOffset ==
    /\ pc = "head"
    /\ pc' = "offset"
    /\ aux' = [offset |-> pos]
    /\ UNCHANGED <<val, buf, pos, out>>

StbWriteCells == StbStage("offset", "cells", DataTable_write_cells(val))

StbPatch ==
    /\ pc = "cells"
    /\ pc' = "written"
    /\ LET w == DataTable_write_patch([b |-> buf, p |-> pos], aux.offset)
       IN buf' = w.b /\ pos' = w.p
    /\ UNCHANGED <<val, aux, out>>

StbRead ==
    /\ pc = "written"
    /\ pc' = "read"
    /\ out' = DataTable_read(DataTable_default, buf)
    /\ UNCHANGED <<val, buf, pos, aux>>

\* cursor.set_position(0) and read once more, into the table that the
\* read before has filled
StbReadAgain ==
    /\ pc = "read"
    /\ out.status = "ok"
    /\ pc' = "read again"
    /\ out' = DataTable_read(out.self, buf)
    /\ UNCHANGED <<val, buf, pos, aux>>

NextStb ==
    \/ StbReadAgain
    \/ StbWriteStart
    \/ StbWriteHead
    \/ StbRecordOffset
    \/ StbWriteCells
    \/ StbPatch
    \/ StbRead

SpecStb == InitStb /\ [][NextStb]_vars

(***************************************************************************)
(* The string tables handed to StringTable::write, and the driver of       *)
(* tests/stl.rs: write into a Cursor, set_position(0), read into           *)
(* StringTable::new().                                                     *)
(***************************************************************************)
MaxKeys == 3

\* the keys i2, i10 and i1
KeyTexts == {<<105, 50>>, <<105, 49, 48>>, <<105, 49>>}

MaxPattern == 4
LongLen == 130

\* the text of field f in language l under each content pattern: all empty;
\* a different text in every slot; one text ending in NUL; one text that
\* needs the two-byte length prefix
PatternText(n, f, l) ==
    CASE n = 1 -> <<>>
      [] n = 2 -> <<64 + f, 48 + l>>
      [] n = 3 -> IF f = 1 /\ l = 2 THEN <<120, 0>> ELSE <<>>
      [] OTHER -> IF f = 1 /\ l = 1 THEN [i \in 1..LongLen |-> 122] ELSE <<64 + f>>

StlEntries ==
    { [variant |-> v,
       fields |-> [f \in 1..FieldCount(v) |-> [l \in 1..LanguageCount |-> PatternText(n, f, l)]]] :
        v \in {"Text", "Description", "Quest"}, n \in 1..MaxPattern }

\* the keys 1a, 01b and 1, in which digit runs of the same value meet
ZeroKeyTexts == {<<49, 97>>, <<48, 49, 98>>, <<49>>}

\* tables over every set of up to MaxKeys of the keys of KeyTexts, and
\* tables of one content pattern over all the keys of ZeroKeyTexts
StringTables ==
    { [entry_type |-> ty, entries |-> e] :
        ty \in {"Text", "Description", "Quest"},
        e \in UNION { [K -> StlEntries] : K \in {S \in SUBSET KeyTexts : Cardinality(S) <= MaxKeys} } }
    \cup { [entry_type |-> ty,
            entries |-> [k \in ZeroKeyTexts |->
                           [variant |-> ty,
                            fields |-> [f \in 1..FieldCount(ty) |->
                                          [l \in 1..LanguageCount |-> PatternText(2, f, l)]]]]] :
             ty \in {"Text", "Description", "Quest"} }

\* files handed to read alone: two keys, a and b or c and d, a language
\* count below, at and above StringTableLanguage::LENGTH, and the strings of
\* the entries laid out in the order of their offset slots or in the
\* reverse order, each entry followed by a byte that belongs to no string.
\* The languages past the seventh get an offset beyond the end of the file.
\* A file of the type Unknown is a Text file under the tag NRST02.
ForeignTables ==
    [entry_type : {"Text", "Description", "Quest", "Unknown"},
     language_count : {0, 2, 7, 9},
     reversed : BOOLEAN,
     first_key : {97, 99}]

ForeignTable(file) ==
    LET head == write_string_varbyte(IF file.entry_type = "Unknown"
                                     THEN <<78, 82, 83, 84, 48, 50>>
                                     ELSE TypeTag(file.entry_type))
                \o write_u32(2)
                \o write_string_varbyte(<<file.first_key>>) \o write_u32(0)
                \o write_string_varbyte(<<file.first_key + 1>>) \o write_u32(1)
                \o write_u32(file.language_count)
        fields == IF file.entry_type = "Unknown" THEN 1 ELSE FieldCount(file.entry_type)
        count == IF file.language_count < LanguageCount THEN file.language_count
                 ELSE LanguageCount
        tables == Len(head) + 4 * file.language_count
        payload == tables + 8 * count
        size == 4 * fields + 1
        place(n) == IF file.reversed THEN 2 * count - 1 - n ELSE n
        \* the string of field f of key k in language l
        Text(l, k, f) == <<64 + f, 48 + l, 96 + k>>
        Entry(n) ==
            Concat([f \in 1..fields |->
                       write_string_varbyte(Text((n \div 2) + 1,
                                                 file.first_key - 96 + (n % 2), f))])
            \o <<255>>
        end == payload + size * 2 * count
    IN head
       \o Concat([l \in 1..file.language_count |->
                    write_u32(IF l <= LanguageCount THEN tables + 8 * (l - 1)
                              ELSE end + 100)])
       \o Concat([n \in 1..(2 * count) |-> write_u32(payload + size * place(n - 1))])
       \o Concat([m \in 1..(2 * count) |->
                    Entry(CHOOSE n \in 0..(2 * count - 1) : place(n) = m - 1)])

StlIdle ==
    [origin |-> "write", keys |-> <<>>, language_offsets |-> 0, entry_offsets |-> 0,
     language_index |-> 0, entry_index |-> 0, language_count |-> 0]

InitStl ==
    /\ \/ /\ pc = "init"
          /\ val \in StringTables
          /\ buf = <<>>
          /\ aux = StlIdle
       \/ /\ pc = "written"
          /\ val \in ForeignTables
          /\ buf = ForeignTable(val)
          /\ aux = [StlIdle EXCEPT !.origin = "file"]
    /\ pos = 0
    /\ out = NoRead

\* the keys leave the HashMap in any order
StlWriteHead ==
    /\ pc = "init"
    /\ pc' = "tables"
    /\ LET Apply(h) ==
               /\ buf' = h.w.b
               /\ pos' = h.w.p
               /\ aux' = [aux EXCEPT !.keys = h.keys,
                                     !.language_offsets = h.language_offsets,
                                     !.entry_offsets = h.entry_offsets]
       IN \E order \in hash_orders(DOMAIN val.entries) :
              Apply(stl_write_head(val, [b |-> buf, p |-> pos], order))
    /\ UNCHANGED <<val, out>>

\* for language_index in 0..StringTableLanguage::LENGTH
StlWriteTable ==
    /\ pc = "tables"
    /\ LET last == aux.language_index + 1 = LanguageCount
           Table(w) ==
               /\ buf' = w.b
               /\ pos' = w.p
               /\ aux' = [aux EXCEPT !.language_index = IF last THEN 0 ELSE @ + 1]
               /\ pc' = IF ~last THEN "tables"
                        ELSE IF aux.keys = <<>> THEN "written" ELSE "payload"
       IN Table(stl_write_table([b |-> buf, p |-> pos], aux.language_offsets,
                                Len(aux.keys), aux.language_index))
    /\ UNCHANGED <<val, out>>

\* for each language, for (entry_index, key) in keys
StlWriteEntry ==
    /\ pc = "payload"
    /\ LET last_entry == aux.entry_index + 1 = Len(aux.keys)
           last == last_entry /\ aux.language_index + 1 = LanguageCount
           Entry(w) ==
               /\ buf' = w.b
               /\ pos' = w.p
               /\ aux' = [aux EXCEPT !.entry_index = IF last_entry THEN 0 ELSE @ + 1,
                                     !.language_index = IF last THEN 0
                                                        ELSE IF last_entry THEN @ + 1 ELSE @]
               /\ pc' = IF last THEN "written" ELSE "payload"
       IN Entry(stl_write_entry([b |-> buf, p |-> pos], val, aux.keys, aux.entry_offsets,
                                aux.language_index, aux.entry_index))
    /\ UNCHANGED <<val, out>>

\* cursor.set_position(0), then read into StringTable::new(), or into the
\* table of the read before
StlReadHead ==
    /\ pc = "written"
    /\ LET Apply(h) ==
               /\ pos' = h.p
               /\ aux' = [aux EXCEPT !.keys = h.keys, !.language_index = 0,
                                     !.language_count = h.language_count]
               /\ out' = [status |-> IF ~h.ok THEN "err"
                                     ELSE IF h.language_count = 0 THEN "ok" ELSE "none",
                          self |-> h.self]
               /\ pc' = IF h.ok /\ h.language_count > 0 THEN "languages" ELSE "read"
       IN Apply(stl_read_head(IF aux.origin = "again" THEN out.self
                              ELSE StringTable_default, buf))
    /\ UNCHANGED <<val, buf>>

\* for language_id in 0..language_count
StlReadLanguage ==
    /\ pc = "languages"
    /\ LET last == aux.language_index + 1 = aux.language_count
           Language(r) ==
               /\ pos' = r.p
               /\ aux' = [aux EXCEPT !.language_index = @ + 1]
               /\ out' = [status |-> IF ~r.ok THEN "err" ELSE IF last THEN "ok" ELSE "none",
                          self |-> [out.self EXCEPT !.entries = r.v]]
               /\ pc' = IF ~r.ok \/ last THEN "read" ELSE "languages"
       IN Language(stl_read_language(out.self.entries, aux.keys, buf, pos, aux.language_index))
    /\ UNCHANGED <<val, buf>>

\* after a read of a file has succeeded, another file is handed to read
\* on the same StringTable
StlReadAgain ==
    /\ pc = "read"
    /\ aux.origin = "file"
    /\ out.status = "ok"
    /\ \E file \in ForeignTables :
          /\ val' = file
          /\ buf' = ForeignTable(file)
    /\ pos' = 0
    /\ aux' = [StlIdle EXCEPT !.origin = "again"]
    /\ out' = [out EXCEPT !.status = "none"]
    /\ pc' = "written"

NextStl ==
    \/ StlReadAgain
    \/ StlWriteHead
    \/ StlWriteTable
    \/ StlWriteEntry
    \/ StlReadHead
    \/ StlReadLanguage

SpecStl == InitStl /\ [][NextStl]_vars

(***************************************************************************)
(* The model lists handed to ModelList::write and the files handed to      *)
(* ModelList::read, and the driver: write into an empty Cursor, one action *)
(* for the pools and one per round of the model loop, then                 *)
(* set_position(0) and read into ModelList::new(), again one action for    *)
(* the pools and one per round of the model loop.                          *)
(***************************************************************************)
MaxModels == 2

PlainPart == [ModelPart_default EXCEPT !.mesh_path = <<97>>,
                                       !.material = Some([ModelMaterial_default EXCEPT
                                                             !.path = <<109>>])]

\* model lists of up to MaxModels slots: one slot ranges over holes and
\* models, the slots before and after it over a hole and one plain model.
\* Materials: the four settings of the z flags under one path, and a
\* material with every other field away from its default. PartPatterns: a
\* part with every field at its default, one with every field set, and one
\* on the edges: a negative zero, a rotation within the near-identity
\* threshold, collision flags without a shape, a range set id of 0, and
\* two with the parents 32766 and 32767, whose stored values are the
\* largest positive and the first negative 16-bit signed number.
ModelLists ==
    LET Materials ==
            {[ModelMaterial_default EXCEPT !.path = <<109>>, !.z_test_enabled = zt,
                                           !.z_write_enabled = zw] : zt, zw \in BOOLEAN}
            \cup {[path |-> <<110>>, is_skin |-> TRUE, alpha_enabled |-> TRUE,
                   two_sided |-> TRUE, alpha_test |-> None, z_write_enabled |-> TRUE,
                   z_test_enabled |-> TRUE, blend_mode |-> Some(1),
                   specular_enabled |-> TRUE, alpha |-> f32("0.5"),
                   glow |-> Some([glow_type |-> 2,
                                  color |-> <<f32("0.5"), f32("0.0"), f32("1.0")>>])]}
        PartPatterns ==
            {ModelPart_default,
             [ModelPart_default EXCEPT
                !.position = <<f32("1.0"), f32("0.0"), f32("-1.0")>>,
                !.rotation = [x |-> f32("0.5"), y |-> f32("0.5"), z |-> f32("0.5"),
                              w |-> f32("0.5")],
                !.scale = <<f32("2.0"), f32("1.0"), f32("1.0")>>,
                !.bone_index = Some(1), !.dummy_index = Some(0), !.parent = Some(0),
                !.collision_shape = Some(1), !.collision_flags = 136,
                !.animation_path = Some(<<112>>), !.range_set_id = Some(3),
                !.use_lightmap = TRUE],
             [ModelPart_default EXCEPT
                !.position = <<f32("-0.0"), f32("0.0"), f32("0.0")>>,
                !.rotation = [x |-> f32("0.0"), y |-> f32("0.0"), z |-> f32("0.0"),
                              w |-> f32("1.0-8ulp")],
                !.collision_flags = 8, !.range_set_id = Some(0)],
             [ModelPart_default EXCEPT !.parent = Some(32766)],
             [ModelPart_default EXCEPT !.parent = Some(32767)]}
        Parts ==
            {[pattern EXCEPT !.mesh_path = mesh, !.material = material] :
                pattern \in PartPatterns, mesh \in {<<97>>, <<98>>},
                material \in {None} \cup {Some(m) : m \in Materials}}
        SecondParts ==
            {x \in Parts : /\ x.mesh_path = <<98>>
                           /\ x.position = Vector3_ZERO
                           /\ x.rotation = Quaternion_IDENTITY
                           /\ \/ x.material = None
                              \/ x.material[1].path = <<109>> /\ x.material[1].z_test_enabled}
        PartLists ==
            {<<>>} \cup {<<p>> : p \in Parts} \cup {<<p, q>> : p \in Parts, q \in SecondParts}
        DummyPoints ==
            {ModelDummyPoint_default,
             [ModelDummyPoint_default EXCEPT
                !.attachment = Some([kind |-> "Effect", path |-> <<101>>,
                                     only_visible_at_night |-> FALSE]),
                !.position = <<f32("0.0"), f32("2.0"), f32("0.0")>>],
             [ModelDummyPoint_default EXCEPT
                !.attachment = Some([kind |-> "Effect", path |-> <<102>>,
                                     only_visible_at_night |-> TRUE]),
                !.parent = Some(0)],
             [ModelDummyPoint_default EXCEPT !.parent = Some(32767)],
             [ModelDummyPoint_default EXCEPT
                !.attachment = Some([kind |-> "Light", name |-> <<101>>]),
                !.rotation = [x |-> f32("1.0"), y |-> f32("0.0"), z |-> f32("0.0"),
                              w |-> f32("0.0")],
                !.scale = <<f32("1.0"), f32("1.0"), f32("0.5")>>]}
        DummyLists ==
            {<<>>} \cup {<<d>> : d \in DummyPoints}
            \cup {<<d, ModelDummyPoint_default>> : d \in DummyPoints}
        MakeModel(radius, parts, dummy_points) ==
            [bounding_cylinder |-> [radius |-> radius, center |-> <<-1, 2>>],
             bounding_box |-> [min |-> <<f32("-1.0"), f32("-1.0"), f32("0.0")>>,
                               max |-> <<f32("1.0"), f32("2.0"), f32("0.5")>>],
             parts |-> parts,
             dummy_points |-> dummy_points]
        Slots == {None}
                 \cup {Some(MakeModel(f32("1.0"), parts, <<>>)) : parts \in PartLists}
                 \cup {Some(MakeModel(radius, <<PlainPart>>, dummy_points)) :
                         radius \in {f32("2.0"), f32("2.5")}, dummy_points \in DummyLists}
        Fillers == {None, Some(MakeModel(f32("1.0"), <<PlainPart>>, <<>>))}
    IN {[models |-> <<>>]}
       \cup UNION {{[models |-> [k \in 1..(ij[1] + 1 + ij[2]) |->
                                    IF k <= ij[1] THEN pre[k]
                                    ELSE IF k = ij[1] + 1 THEN m ELSE post[k - ij[1] - 1]]] :
                        pre \in [1..ij[1] -> Fillers], post \in [1..ij[2] -> Fillers],
                        m \in Slots} :
                   ij \in {x \in (0..MaxModels) \X (0..MaxModels) : x[1] + x[2] < MaxModels}}

\* a file with one model of one part and one dummy point, after pools of
\* one mesh, one material and one effect. Either extra bytes are put into
\* the two property streams before their terminators, after an optional
\* record with a part count of 0 and a cylinder that is not zero; or the
\* part's pool indices, the dummy point's effect index and attachment type
\* and the material's blend mode and glow type range over values inside
\* and outside the pools and the enums
ForeignFiles ==
    {[hole_first |-> hole, part_extra |-> part, dummy_extra |-> dummy,
      mesh_index |-> 0, material_index |-> 0, effect_index |-> -1, attachment_type |-> 0,
      blend_mode |-> 0, glow_type |-> 0] :
        hole \in BOOLEAN,
        part \in {<<>>} \cup {<<tag, 2, 7, 0>> : tag \in {8, 9, 200}},
        dummy \in {<<>>} \cup {<<tag, 2, 7, 0, 1, 12>>
                                  \o Concat(<<f32("2.0"), f32("0.0"), f32("0.5")>>) :
                               tag \in {4, 5, 8, 9, 29, 30, 200}}}
    \cup [hole_first : {FALSE}, part_extra : {<<>>}, dummy_extra : {<<>>},
          mesh_index : {-1, 0, 1}, material_index : {-1, 0, 1}, effect_index : {-1, 0, 1},
          attachment_type : {0, 1, 2, 3}, blend_mode : {0, 1, 2, 3},
          glow_type : {0, 1, 2, 6, 7}]

ForeignStream(file) ==
    LET pools == [mesh_files |-> <<PlainPart.mesh_path>>,
                  materials |-> <<PlainPart.material[1]>>, effect_files |-> <<<<101>>>>]
        material ==
            [PlainPart.material[1] EXCEPT
                !.blend_mode = IF file.blend_mode = 0 THEN None ELSE Some(file.blend_mode),
                !.glow = IF file.glow_type = 0 THEN None
                         ELSE Some([glow_type |-> file.glow_type, color |-> Vector3_ONE])]
        Stream(part) ==
            zsc_write_head([models |-> IF file.hole_first THEN <<None, None>> ELSE <<None>>],
                           [pools EXCEPT !.materials = <<material>>])
            \o (IF file.hole_first
                THEN write_u32(2) \o write_i32(1) \o write_i32(-1) \o write_u16(0)
                ELSE <<>>)
            \o write_u32(1) \o write_i32(0) \o write_i32(0) \o write_u16(1)
            \o write_i16(file.mesh_index) \o write_i16(file.material_index)
            \o SubSeq(part, 5, Len(part) - 1) \o file.part_extra \o <<0>>
            \o write_u16(1) \o write_i16(file.effect_index) \o write_u16(file.attachment_type)
            \o file.dummy_extra \o <<0>>
            \o Concat(Vector3_ZERO) \o Concat(Vector3_ONE)
    IN Stream(zsc_write_part(PlainPart, pools))

ZscIdle ==
    [origin |-> "write",
     pools |-> [mesh_files |-> <<>>, materials |-> <<>>, effect_files |-> <<>>],
     starts |-> <<>>, index |-> 0,
     read_pools |-> [meshes |-> <<>>, materials |-> <<>>, effects |-> <<>>],
     model_count |-> 0, read_starts |-> <<>>, read_ends |-> <<>>]

InitZsc ==
    /\ \/ /\ pc = "init"
          /\ val \in ModelLists
          /\ buf = <<>>
          /\ aux = ZscIdle
       \/ /\ pc = "written"
          /\ val \in ForeignFiles
          /\ buf = ForeignStream(val)
          /\ aux = [ZscIdle EXCEPT !.origin = "file"]
    /\ pos = 0
    /\ out = [status |-> "none", self |-> [models |-> <<>>]]

\* write up to the model count; the materials leave the HashSet in any
\* order and sort_by(path) keeps that order among equal paths
ZscWriteHead ==
    /\ pc = "init"
    /\ LET Apply(pools, bytes) ==
               /\ buf' = bytes
               /\ pos' = Len(bytes)
               /\ aux' = [aux EXCEPT !.pools = pools]
           Orders(collected) ==
               \E materials \in zsc_material_orders(collected.materials) :
                   Apply([collected EXCEPT !.materials = materials],
                         zsc_write_head(val, [collected EXCEPT !.materials = materials]))
       IN Orders(zsc_pools(val))
    /\ pc' = IF val.models = <<>> THEN "written" ELSE "models"
    /\ UNCHANGED <<val, out>>

\* for object in self.models.iter()
ZscWriteModel ==
    /\ pc = "models"
    /\ LET last == aux.index + 1 = Len(val.models)
           Apply(bytes) ==
               /\ buf' = buf \o bytes
               /\ pos' = pos + Len(bytes)
               /\ aux' = [aux EXCEPT !.starts = Append(@, pos),
                                     !.index = IF last THEN 0 ELSE @ + 1]
               /\ pc' = IF last THEN "written" ELSE "models"
       IN Apply(zsc_write_model(val.models[aux.index + 1], aux.pools))
    /\ UNCHANGED <<val, out>>

\* cursor.set_position(0), then read into ModelList::new(), up to the model
\* count
ZscReadHead ==
    /\ pc = "written"
    /\ LET Apply(h) ==
               /\ pos' = h.p
               /\ aux' = [aux EXCEPT !.read_pools = [meshes |-> h.meshes,
                                                      materials |-> h.materials,
                                                      effects |-> h.effects],
                                     !.model_count = h.model_count,
                                     !.index = 0]
               /\ out' = [status |-> IF ~h.ok THEN "err"
                                     ELSE IF h.model_count = 0 THEN "ok" ELSE "none",
                          self |-> [models |-> <<>>]]
               /\ pc' = IF h.ok /\ h.model_count > 0 THEN "records" ELSE "read"
       IN Apply(zsc_read_head(buf))
    /\ UNCHANGED <<val, buf>>

\* for _ in 0..model_count
ZscReadModel ==
    /\ pc = "records"
    /\ LET last == aux.index + 1 = aux.model_count
           Apply(r) ==
               /\ pos' = r.p
               /\ aux' = [aux EXCEPT !.index = @ + 1,
                                     !.read_starts = Append(@, pos),
                                     !.read_ends = Append(@, r.p)]
               /\ out' = [status |-> IF r.st # "ok" THEN r.st
                                     ELSE IF last THEN "ok" ELSE "none",
                          self |-> IF r.st # "ok" THEN out.self
                                   ELSE [models |-> Append(out.self.models, r.v)]]
               /\ pc' = IF r.st # "ok" \/ last THEN "read" ELSE "records"
       IN Apply(zsc_read_model(buf, pos, aux.read_pools))
    /\ UNCHANGED <<val, buf>>

NextZsc ==
    \/ ZscWriteHead
    \/ ZscWriteModel
    \/ ZscReadHead
    \/ ZscReadModel

SpecZsc == InitZsc /\ [][NextZsc]_vars

(***************************************************************************)
(* The models handed to Model::write, the texts handed to Model::read, and *)
(* the driver: write into an empty cursor, rewind, read line by line into  *)
(* Model::new().                                                            *)
(***************************************************************************)

MaxParts == 2

Model_default ==
    [bounding_cylinder |-> [radius |-> f32("0.0"), center |-> <<0, 0>>],
     bounding_box |-> [min |-> Vector3_ZERO, max |-> Vector3_ZERO],
     parts |-> <<>>,
     dummy_points |-> <<>>]

\* models of up to MaxParts parts and up to one dummy point, with the
\* bounding box the text form does not carry left at its default. Parts: a
\* part with a mesh alone, the plain part with its default material, and a
\* part with every field and every material field set.
Models ==
    LET Parts ==
            {[ModelPart_default EXCEPT !.mesh_path = <<97>>, !.material = None],
             PlainPart,
             [ModelPart_default EXCEPT
                !.mesh_path = <<98>>,
                !.position = <<f32("1.0"), f32("0.0"), f32("-1.0")>>,
                !.rotation = [x |-> f32("0.5"), y |-> f32("0.5"), z |-> f32("0.5"),
                              w |-> f32("0.5")],
                !.scale = <<f32("2.0"), f32("1.0"), f32("1.0")>>,
                !.bone_index = Some(1), !.dummy_index = Some(0), !.parent = Some(0),
                !.collision_shape = Some(1), !.collision_flags = 136,
                !.animation_path = Some(<<112>>), !.range_set_id = Some(3),
                !.use_lightmap = TRUE,
                !.material =
                    Some([path |-> <<110>>, is_skin |-> TRUE, alpha_enabled |-> TRUE,
                          two_sided |-> TRUE, alpha_test |-> Some(7),
                          z_write_enabled |-> FALSE, z_test_enabled |-> FALSE,
                          blend_mode |-> Some(1), specular_enabled |-> TRUE,
                          alpha |-> f32("0.5"),
                          glow |-> Some([glow_type |-> 3,
                                         color |-> <<f32("0.5"), f32("0.0"), f32("1.0")>>])])]}
        PartLists ==
            UNION {[1..n -> Parts] : n \in 0..MaxParts}
        DummyLists ==
            {<<>>,
             <<ModelDummyPoint_default>>,
             <<[ModelDummyPoint_default EXCEPT
                  !.attachment = Some([kind |-> "Effect", path |-> <<101>>,
                                       only_visible_at_night |-> TRUE]),
                  !.position = <<f32("0.0"), f32("2.0"), f32("0.0")>>,
                  !.parent = Some(0)]>>,
             <<[ModelDummyPoint_default EXCEPT
                  !.attachment = Some([kind |-> "Light", name |-> <<101>>]),
                  !.scale = <<f32("1.0"), f32("1.0"), f32("0.5")>>]>>}
        Cylinders ==
            {Model_default.bounding_cylinder, [radius |-> f32("2.5"), center |-> <<-1, 2>>]}
    IN {[Model_default EXCEPT !.bounding_cylinder = c, !.parts = p, !.dummy_points = d] :
           c \in Cylinders, p \in PartLists, d \in DummyLists}

\* materials under the path m: is_skin, two_sided and specular_enabled set
\* together, the two z flags cleared together, alpha_enabled either way, the
\* alpha test absent or with the reference 7, blending absent or present,
\* the alpha values 1, 0.5 and 0, and no glow or a glow with its colour
MaterialCases ==
    {[path |-> <<109>>, is_skin |-> f, alpha_enabled |-> e, two_sided |-> f,
      alpha_test |-> t, z_write_enabled |-> z, z_test_enabled |-> z,
      blend_mode |-> b, specular_enabled |-> f, alpha |-> a, glow |-> g] :
        f \in BOOLEAN, e \in BOOLEAN, z \in BOOLEAN, t \in {None, Some(7)},
        b \in {None, Some(1)}, a \in {f32("1.0"), f32("0.5"), f32("0.0")},
        g \in {None, Some([glow_type |-> 3,
                           color |-> <<f32("0.5"), f32("0.0"), f32("1.0")>>])}}

\* texts that open one part with obj, put two lines under it and go on with
\* nothing, with a second part or with a point. The lines: well-formed ones,
\* ones with a missing or an invalid parameter, a line of a point, a
\* comment, and the part line of Model::write. And texts of one well-formed
\* line of each kind that belongs to a block, at the start of the text,
\* after a blank line and a comment, under an obj line or under a point
\* line, with a point line after it or nothing. And texts of an obj line
\* with the lines Model::write emits for one of MaterialCases under it,
\* and texts of a point line with two effect or type lines under it.
ForeignTexts ==
    LET Text(words) ==
            Concat([i \in 1..Len(words) |->
                       words[i] \o (IF i = Len(words) THEN <<10>> ELSE <<32>>)])
        PartLines ==
            {<<Word.mesh, <<97>>>>, <<Word.mat, <<109>>>>, <<Word.mat>>,
             <<Word.alpha, fmt_int(1)>>, <<Word.alpha, fmt_f32(f32("0.5"))>>,
             <<Word.alphavalue, fmt_f32(f32("0.5"))>>,
             <<Word.alphatest, fmt_int(1)>>, <<Word.alpharef, fmt_int(7)>>,
             <<Word.alpharef, fmt_int(256)>>,
             <<Word.glowtype, fmt_int(3)>>, <<Word.glowtype, fmt_int(7)>>,
             <<Word.glowcolor, fmt_f32(f32("0.5")), fmt_int(0), fmt_int(1)>>,
             <<Word.blendtype, fmt_int(1)>>, <<Word.blendtype, fmt_int(2)>>,
             <<Word.collision, fmt_int(136)>>, <<Word.collision, fmt_int(256)>>,
             <<Word.parent, fmt_int(1)>>, <<Word.parent, fmt_int(0)>>,
             <<Word.scale, fmt_int(2), fmt_int(1)>>,
             <<Word.cylinder, fmt_int(-1), fmt_f32(f32("2.5")), fmt_int(1)>>,
             <<Word.effect, <<101>>>>, <<Word.part, fmt_int(1)>>, <<<<47, 47>>, Word.mesh>>}
        Tails ==
            {<<>>,
             Text(<<Word.obj, fmt_int(2)>>) \o <<9>> \o Text(<<Word.mesh, <<98>>>>),
             Text(<<Word.numpoint, fmt_int(1)>>) \o Text(<<Word.point, fmt_int(1)>>)
                \o Text(<<Word.type, fmt_int(2)>>) \o Text(<<Word.effect, <<101>>>>)
                \o Text(<<Word.parent, fmt_int(1)>>),
             Text(<<Word.point, fmt_int(1)>>) \o Text(<<Word.type, fmt_int(3)>>)
                \o Text(<<Word.effect>>) \o Text(<<Word.mesh, <<97>>>>)}
        BlockLines ==
            {<<Word.mesh, <<97>>>>, <<Word.mat, <<109>>>>, <<Word.isskin, fmt_int(1)>>,
             <<Word.alpha, fmt_int(1)>>, <<Word.twoside, fmt_int(1)>>,
             <<Word.alphatest, fmt_int(1)>>, <<Word.alpharef, fmt_int(7)>>,
             <<Word.ztest, fmt_int(0)>>, <<Word.zwrite, fmt_int(0)>>,
             <<Word.blendtype, fmt_int(1)>>, <<Word.blendtype, fmt_int(0)>>,
             <<Word.specular, fmt_int(1)>>, <<Word.alphavalue, fmt_f32(f32("0.5"))>>,
             <<Word.glowtype, fmt_int(3)>>, <<Word.glowtype, fmt_int(0)>>,
             <<Word.glowcolor, fmt_f32(f32("0.5")), fmt_int(0), fmt_int(1)>>,
             <<Word.pos, fmt_int(1), fmt_int(0), fmt_int(0)>>,
             <<Word.rot, fmt_int(0), fmt_int(1), fmt_int(0), fmt_int(0)>>,
             <<Word.scale, fmt_int(1), fmt_int(1), fmt_f32(f32("0.5"))>>,
             <<Word.parent, fmt_int(1)>>, <<Word.parent, fmt_int(0)>>,
             <<Word.linkdummy, fmt_int(0)>>, <<Word.linkdummy, fmt_int(-1)>>,
             <<Word.bonenumber, fmt_int(1)>>, <<Word.bonenumber, fmt_int(-1)>>,
             <<Word.collision, fmt_int(1)>>, <<Word.collision, fmt_int(8)>>,
             <<Word.anim, <<112>>>>, <<Word.rangeset, fmt_int(3)>>,
             <<Word.rangeset, fmt_int(0)>>, <<Word.uselightmap, fmt_int(1)>>,
             <<Word.effect, <<101>>>>, <<Word.type, fmt_int(2)>>, <<Word.type, fmt_int(3)>>}
        PointLines ==
            {<<Word.effect, <<101>>>>, <<Word.type, fmt_int(0)>>,
             <<Word.type, fmt_int(1)>>, <<Word.type, fmt_int(2)>>}
        Heads ==
            {<<>>, <<10>> \o Text(<<<<47, 47>>, Word.obj>>),
             Text(<<Word.obj, fmt_int(1)>>), Text(<<Word.point, fmt_int(1)>>)}
    IN {Text(<<Word.numobj, fmt_int(1)>>) \o Text(<<Word.obj, fmt_int(1)>>)
        \o <<9>> \o Text(first) \o <<32, 9>> \o Text(second) \o tail :
           first \in PartLines, second \in PartLines, tail \in Tails}
       \cup {head \o <<9>> \o Text(line) \o tail :
                head \in Heads, line \in BlockLines,
                tail \in {<<>>, Text(<<Word.point, fmt_int(2)>>)}}
       \cup {Text(<<Word.obj, fmt_int(1)>>) \o Model_write_material(material) :
                material \in MaterialCases}
       \cup {Text(<<Word.point, fmt_int(1)>>) \o <<9>> \o Text(first)
             \o <<9>> \o Text(second) :
                first \in PointLines, second \in PointLines}

InitZsctxt ==
    /\ \/ /\ pc = "init"
          /\ val \in Models
          /\ buf = <<>>
          /\ aux = [origin |-> "write", parse_object |-> None, line_counter |-> 0]
       \/ /\ pc = "lines"
          /\ val \in ForeignTexts
          /\ buf = val
          /\ aux = [origin |-> "text", parse_object |-> None, line_counter |-> 0]
    /\ pos = 0
    /\ out = [status |-> "none", self |-> Model_default]

\* Model::write into the empty cursor, then cursor.set_position(0)
ZsctxtWrite ==
    /\ pc = "init"
    /\ buf' = Model_write(val)
    /\ pos' = 0
    /\ pc' = "lines"
    /\ UNCHANGED <<val, aux, out>>

\* one round of the loop of Model::read over a line that is there; an error
\* leaves in self what the lines before it and this line have stored
ZsctxtReadLine ==
    /\ pc = "lines"
    /\ LET Step(l, r) ==
               /\ pos' = l.p
               /\ aux' = [aux EXCEPT !.parse_object = r.parse_object,
                                     !.line_counter = @ + 1]
               /\ out' = [status |-> IF r.st = "ok" THEN "none" ELSE r.st,
                          self |-> r.self]
               /\ pc' = IF r.st = "ok" THEN "lines" ELSE "read"
           Apply(l) ==
               /\ l.line # <<>>
               /\ Step(l, Model_read_line(out.self, aux.parse_object,
                                          split_whitespace(l.line)))
       IN Apply(read_line(buf, pos))
    /\ UNCHANGED <<val, buf>>

\* ZsctxtReadEnd that returns without completing the last provisional record
ZsctxtReadEnd_without_complete ==
    /\ pc = "lines"
    /\ read_line(buf, pos).line = <<>>
    /\ out' = [status |-> "ok", self |-> out.self]
    /\ aux' = [aux EXCEPT !.parse_object = None]
    /\ pc' = "read"
    /\ UNCHANGED <<val, buf, pos>>

\* read_line returns 0: the loop ends, the last provisional record is
\* completed and read returns Ok
ZsctxtReadEnd ==
    /\ pc = "lines"
    /\ read_line(buf, pos).line = <<>>
    /\ out' = [status |-> "ok", self |-> complete_object(out.self, aux.parse_object)]
    /\ aux' = [aux EXCEPT !.parse_object = None]
    /\ pc' = "read"
    /\ UNCHANGED <<val, buf, pos>>

NextZsctxt ==
    \/ ZsctxtWrite
    \/ ZsctxtReadLine
    \/ ZsctxtReadEnd

SpecZsctxt == InitZsctxt /\ [][NextZsctxt]_vars

(***************************************************************************)
(* The strings handed to the string writers, and the driver: write one     *)
(* string into an empty cursor, hand the stream to the matching reader as  *)
(* it is or cut short by one or two bytes at its end.                      *)
(***************************************************************************)

\* strings of the letter z, and the same with a NUL as last byte, of the
\* lengths around the steps of the prefixes; the lengths from 16383 on, up
\* to the longest the two-byte varbyte prefix holds, go to the varbyte
\* writer alone
StringCases ==
    LET Lengths == (0..3) \cup (126..130) \cup {255, 256, 300}
        Text(n, ends_nul) == [i \in 1..n |-> IF ends_nul /\ i = n THEN 0 ELSE 122]
    IN {[encoding |-> e, text |-> Text(n, z)] :
           e \in {"fixed", "u8", "u16", "u32", "varbyte", "cstring"},
           n \in Lengths, z \in BOOLEAN}
       \cup {[encoding |-> "varbyte", text |-> Text(n, FALSE)] :
                n \in {16383, 16384, 32767}}

InitStr ==
    /\ pc = "init"
    /\ val \in StringCases
    /\ buf = <<>>
    /\ pos = 0
    /\ aux = [cut |-> 0]
    /\ out = NoRead

\* write_string(s, s.len()), write_string_u8, write_string_u16,
\* write_string_u32, write_string_varbyte or write_cstring
StrWrite ==
    /\ pc = "init"
    /\ val.encoding = "u8" => Len(val.text) < 256
    /\ buf' = CASE val.encoding = "fixed" -> write_string(val.text, Len(val.text))
                [] val.encoding = "u8" -> write_u8(Len(val.text)) \o val.text
                [] val.encoding = "u16" -> write_string_u16(val.text)
                [] val.encoding = "u32" -> write_u32(Len(val.text)) \o val.text
                [] val.encoding = "varbyte" -> write_string_varbyte(val.text)
                [] val.encoding = "cstring" -> write_cstring(val.text)
    /\ pos' = Len(buf')
    /\ pc' = "written"
    /\ UNCHANGED <<val, aux, out>>

\* the stream loses its last one or two bytes before it is read
StrCut ==
    /\ pc = "written"
    /\ aux.cut = 0
    /\ Len(val.text) <= 300
    /\ \E n \in 1..2 :
          /\ n <= Len(buf)
          /\ buf' = SubSeq(buf, 1, Len(buf) - n)
          /\ aux' = [cut |-> n]
    /\ pos' = Len(buf')
    /\ UNCHANGED <<pc, val, out>>

\* the reader of the encoding on the stream from position 0; read_string
\* gets the length the string was written with
StrRead ==
    /\ pc = "written"
    /\ LET Apply(r) ==
               /\ out' = [status |-> IF r.ok THEN "ok" ELSE "err", self |-> r.v]
               /\ pos' = r.p
           Counted(r) == IF r.ok THEN read_string(buf, r.p, r.v) ELSE r
       IN Apply(CASE val.encoding = "fixed" -> read_string(buf, 0, Len(val.text))
                  [] val.encoding = "u8" -> read_string_u8(buf, 0)
                  [] val.encoding = "u16" -> read_string_u16(buf, 0)
                  [] val.encoding = "u32" -> Counted(read_u32(buf, 0))
                  [] val.encoding = "varbyte" -> read_string_varbyte(buf, 0)
                  [] val.encoding = "cstring" -> read_cstring(buf, 0))
    /\ pc' = "read"
    /\ UNCHANGED <<val, buf, aux>>

NextStr ==
    \/ StrWrite
    \/ StrCut
    \/ StrRead

SpecStr == InitStr /\ [][NextStr]_vars

(***************************************************************************)
(* The wide-string flag and the driver: threads that share one process,    *)
(* each calling set_wide_strings and read_string on readers of its own     *)
(* over the same bytes.  WIDE_STRINGS is a thread_local Cell: val holds    *)
(* the cell of each thread.                                                *)
(***************************************************************************)
MaxThreads == 2

\* decode_string, the wide branch: UTF_16LE.decode and the trim of trailing
\* U+FFFD, for streams without a byte order mark and without surrogates; a
\* String is its UTF-8 bytes
decode_wide(bytes) ==
    LET unit(i) == bytes[2 * i - 1] + 256 * bytes[2 * i]
        utf8(u) == IF u < 128 THEN <<u>>
                   ELSE IF u < 2048 THEN <<192 + (u \div 64), 128 + (u % 64)>>
                   ELSE <<224 + (u \div 4096), 128 + ((u \div 64) % 64), 128 + (u % 64)>>
        units == [i \in 1..(Len(bytes) \div 2) |-> unit(i)]
        \* a byte left over decodes to U+FFFD, which the trim removes again
        kept == IF \E i \in DOMAIN units : units[i] # 65533
                THEN CHOOSE n \in DOMAIN units :
                        units[n] # 65533 /\ \A i \in (n + 1)..Len(units) : units[i] = 65533
                ELSE 0
    IN Concat([i \in 1..kept |-> utf8(units[i])])

InitWide ==
    /\ pc = "run"
    /\ val = [t \in 1..MaxThreads |-> FALSE]
    /\ buf \in {<<97, 98>>, <<97, 0, 98, 0>>, <<97, 0, 98>>, <<104, 0>>, <<104, 0, 0>>,
                <<233, 0>>, <<172, 32>>, <<253, 255>>, <<97, 0, 253, 255>>}
    /\ pos = 0
    /\ aux = [last_set |-> FALSE]
    /\ out = NoRead

\* set_wide_strings(b) on a reader of thread t
WideSet ==
    \E t \in 1..MaxThreads, b \in BOOLEAN :
        /\ val' = [val EXCEPT ![t] = b]
        /\ aux' = [last_set |-> b]
        /\ out' = NoRead
        /\ UNCHANGED <<pc, buf, pos>>

\* read_string(len) on a new reader of thread t over the bytes
WideRead ==
    \E t \in 1..MaxThreads :
        /\ LET n == Len(buf)
               cut == IF buf[n] = 0 THEN SubSeq(buf, 1, n - 1) ELSE buf
           IN out' = [status |-> "ok",
                      self |-> IF val[t] THEN decode_wide(cut) ELSE decode_narrow(cut)]
        /\ UNCHANGED <<pc, val, buf, pos, aux>>

NextWide ==
    \/ WideSet
    \/ WideRead

SpecWide == InitWide /\ [][NextWide]_vars

(***************************************************************************)
(* files/chr.rs: the character models handed to CharacterModels::write,    *)
(* the reader of one character, and the driver: write into an empty        *)
(* cursor, pools first and then one character per step, rewind, read into  *)
(* CharacterModels::new().                                                  *)
(***************************************************************************)

MaxCharacters == 2

\* one character of CharacterModels::read at p: st is "ok", "err" (an
\* Err returned) or "panic" (an index outside a pool)
chr_read_model(b, p, pools) ==
    LET from_index == <<"Stop", "Move", "Attack", "Hit", "Die", "Run", "SkillCast1",
                        "SkillAction1", "SkillCast2", "SkillAction2", "Etc">>
        Out(st, v, q) == [st |-> st, v |-> v, p |-> q]
        \* the pairs of a list of n pairs of u16 that starts at q
        First(q, k) == read_u16(b, q + 4 * (k - 1))
        Second(q, k) == read_u16(b, q + 4 * (k - 1) + 2)
        Effects(rn, character) ==
            LET Bad(k) == ~Second(rn.p, k).ok \/ Second(rn.p, k).v >= Len(pools.effect_files)
                bad == {k \in 1..rn.v : Bad(k)}
                stop == CHOOSE k \in bad : \A j \in bad : k <= j
            IN IF ~rn.ok THEN Out("err", None, rn.p)
               ELSE IF bad # {}
               THEN Out(IF Second(rn.p, stop).ok THEN "panic" ELSE "err", None, rn.p)
               ELSE Out("ok",
                        Some([character EXCEPT !.effects =
                                 [k \in 1..rn.v |->
                                     <<First(rn.p, k).v,
                                       pools.effect_files[Second(rn.p, k).v + 1]>>]]),
                        rn.p + 4 * rn.v)
        Motions(rn, character) ==
            LET Type(k) == IF First(rn.p, k).v >= 32768 THEN -1 ELSE First(rn.p, k).v
                Bad(k) == \/ ~Second(rn.p, k).ok
                          \/ Type(k) >= 0 /\ \/ Type(k) >= Len(from_index)
                                             \/ Second(rn.p, k).v >= Len(pools.motion_files)
                bad == {k \in 1..rn.v : Bad(k)}
                stop == CHOOSE k \in bad : \A j \in bad : k <= j
                kept == {k \in 1..rn.v : Type(k) >= 0}
                \* HashMap::insert: the last pair of a type stays
                Last(t) == CHOOSE k \in kept :
                              /\ from_index[Type(k) + 1] = t
                              /\ \A j \in kept : from_index[Type(j) + 1] = t => j <= k
            IN IF ~rn.ok THEN Out("err", None, rn.p)
               ELSE IF bad # {}
               THEN Out(IF Second(rn.p, stop).ok /\ Type(stop) < Len(from_index)
                        THEN "panic" ELSE "err", None, rn.p)
               ELSE Effects(read_u16(b, rn.p + 4 * rn.v),
                            [character EXCEPT !.motions =
                                [t \in {from_index[Type(k) + 1] : k \in kept} |->
                                    pools.motion_files[Second(rn.p, Last(t)).v + 1]]])
        ModelIds(rm, character) ==
            IF ~rm.ok THEN Out("err", None, rm.p)
            ELSE Motions(read_u16(b, rm.p), [character EXCEPT !.models = rm.v])
        Count(rn, character) ==
            IF ~rn.ok THEN Out("err", None, rn.p)
            ELSE ModelIds(read_u16s(b, rn.p, rn.v), character)
        Name(skeleton_index, rname) ==
            IF ~rname.ok THEN Out("err", None, rname.p)
            ELSE Count(read_u16(b, rname.p),
                       [name |-> rname.v, skeleton_index |-> skeleton_index,
                        models |-> <<>>, motions |-> <<>>, effects |-> <<>>])
        Skeleton(rs) ==
            IF ~rs.ok THEN Out("err", None, rs.p) ELSE Name(rs.v, read_cstring(b, rs.p))
        \* skeleton_files[skeleton_index] is taken when the character is built
        Built(r) ==
            IF r.st # "ok" THEN r
            ELSE IF r.v[1].skeleton_index >= Len(pools.skeleton_files)
            THEN Out("panic", None, r.p)
            ELSE Out("ok",
                     Some([name |-> r.v[1].name,
                           skeleton_path |-> pools.skeleton_files[r.v[1].skeleton_index + 1],
                           models |-> r.v[1].models, motions |-> r.v[1].motions,
                           effects |-> r.v[1].effects]),
                     r.p)
        Present(rp) ==
            IF ~rp.ok THEN Out("err", None, rp.p)
            ELSE IF rp.v = 0 THEN Out("ok", None, rp.p)
            ELSE Built(Skeleton(read_u16(b, rp.p)))
    IN Present(read_u8(b, p))

\* lists of up to MaxCharacters slots, each a hole or a character with no
\* motion, one, two, or one of the type to_index has no index for, and with
\* no effect, an effect whose path is the path of a motion, an effect whose
\* path is no motion's, or both
CharacterModelLists ==
    LET Motions ==
            {<<>>, [t \in {"Stop"} |-> <<97>>],
             [t \in {"Stop", "Run"} |-> IF t = "Stop" THEN <<97>> ELSE <<98>>],
             [t \in {"Stop2"} |-> <<97>>]}
        Effects ==
            {<<>>, <<<<1, <<97>>>>>>, <<<<1, <<101>>>>>>, <<<<0, <<97>>>>, <<2, <<101>>>>>>}
        Characters ==
            {[name |-> <<110>>, skeleton_path |-> <<115>>, models |-> <<3>>,
              motions |-> m, effects |-> e] : m \in Motions, e \in Effects}
    IN UNION {[1..n -> {None} \cup {Some(c) : c \in Characters}] : n \in 0..MaxCharacters}

InitChr ==
    /\ pc = "init"
    /\ val \in [models : CharacterModelLists]
    /\ buf = <<>>
    /\ pos = 0
    /\ aux = [index |-> 0, character_count |-> 0,
              pools |-> [skeleton_files |-> <<>>, motion_files |-> <<>>,
                         effect_files |-> <<>>]]
    /\ out = [status |-> "none", self |-> [models |-> <<>>]]

\* CharacterModels::write up to the character count: the three pools are
\* collected, sorted and written
ChrWriteHead ==
    /\ pc = "init"
    /\ LET present == {val.models[i][1] : i \in {j \in 1..Len(val.models) :
                                                     val.models[j] # None}}
           motion_paths == UNION {{model.motions[t] : t \in DOMAIN model.motions}
                                     : model \in present}
           pools == [skeleton_files |->
                         sort_strings({model.skeleton_path : model \in present}),
                     motion_files |-> sort_strings(motion_paths),
                     effect_files |-> sort_strings(motion_paths)]
           Pool(files) ==
               write_u16(Len(files))
               \o Concat([i \in 1..Len(files) |-> write_cstring(files[i])])
           bytes == Pool(pools.skeleton_files) \o Pool(pools.motion_files)
                    \o Pool(pools.effect_files) \o write_u16(Len(val.models))
       IN /\ buf' = bytes
          /\ pos' = Len(bytes)
          /\ aux' = [aux EXCEPT !.pools = pools]
    /\ pc' = IF val.models = <<>> THEN "written" ELSE "models"
    /\ UNCHANGED <<val, out>>

\* for model in self.models.iter(): the motions leave the HashMap in any
\* order; a motion type without an index returns an Err and a path that
\* is in no pool panics in unwrap, with the bytes before it written
ChrWriteModel ==
    /\ pc = "models"
    /\ LET to_index(t) ==
               CASE t = "Stop" -> Some(0) [] t = "Move" -> Some(1)
                 [] t = "Attack" -> Some(2) [] t = "Hit" -> Some(3)
                 [] t = "Die" -> Some(4) [] t = "Run" -> Some(5)
                 [] t = "SkillCast1" -> Some(6) [] t = "SkillAction1" -> Some(7)
                 [] t = "SkillCast2" -> Some(8) [] t = "SkillAction2" -> Some(9)
                 [] t = "Etc" -> Some(10) [] t = "Stop2" -> None
           In(pool, x) == \E i \in 1..Len(pool) : pool[i] = x
           last == aux.index + 1 = Len(val.models)
           Done(st, bytes) ==
               /\ buf' = buf \o bytes
               /\ pos' = pos + Len(bytes)
               /\ aux' = [aux EXCEPT !.index = IF last \/ st # "ok" THEN 0 ELSE @ + 1]
               /\ out' = [out EXCEPT !.status = IF st = "ok" THEN "none" ELSE st]
               /\ pc' = IF st # "ok" THEN "aborted" ELSE IF last THEN "written" ELSE "models"
           Effects(model, bytes) ==
               LET bad == {k \in 1..Len(model.effects) :
                              ~In(aux.pools.effect_files, model.effects[k][2])}
                   stop == CHOOSE k \in bad : \A j \in bad : k <= j
                   Pair(k) == write_u16(model.effects[k][1])
                              \o write_u16(index_of(aux.pools.effect_files,
                                                    model.effects[k][2]))
                   head == bytes \o write_u16(Len(model.effects))
               IN IF bad # {}
                  THEN Done("panic", head \o Concat([k \in 1..(stop - 1) |-> Pair(k)])
                                     \o write_u16(model.effects[stop][1]))
                  ELSE Done("ok", head \o Concat([k \in 1..Len(model.effects) |-> Pair(k)]))
           Motions(model, order, bytes) ==
               LET bad == {k \in 1..Len(order) : to_index(order[k]) = None}
                   stop == CHOOSE k \in bad : \A j \in bad : k <= j
                   Pair(k) == write_u16(to_index(order[k])[1])
                              \o write_u16(index_of(aux.pools.motion_files,
                                                    model.motions[order[k]]))
                   head == bytes \o write_u16(Len(order))
               IN IF bad # {}
                  THEN Done("err", head \o Concat([k \in 1..(stop - 1) |-> Pair(k)]))
                  ELSE Effects(model, head \o Concat([k \in 1..Len(order) |-> Pair(k)]))
           Character(model) ==
               \E order \in {o \in [1..Cardinality(DOMAIN model.motions) ->
                                       DOMAIN model.motions] :
                                \A i, j \in DOMAIN o : i # j => o[i] # o[j]} :
                   Motions(model, order,
                           write_u8(1)
                           \o write_u16(index_of(aux.pools.skeleton_files,
                                                 model.skeleton_path))
                           \o write_cstring(model.name)
                           \o write_u16(Len(model.models))
                           \o Concat([k \in 1..Len(model.models) |->
                                         write_u16(model.models[k])]))
       IN IF val.models[aux.index + 1] = None
          THEN Done("ok", write_u8(0))
          ELSE Character(val.models[aux.index + 1][1])
    /\ UNCHANGED val

\* cursor.set_position(0), then CharacterModels::read up to the character
\* count
ChrReadHead ==
    /\ pc = "written"
    /\ LET Count(skeleton_files, motion_files, effect_files, rn) ==
               /\ pos' = rn.p
               /\ aux' = [aux EXCEPT !.index = 0,
                                     !.character_count = IF rn.ok THEN rn.v ELSE 0,
                                     !.pools = [skeleton_files |-> skeleton_files,
                                                motion_files |-> motion_files,
                                                effect_files |-> effect_files]]
               /\ out' = [status |-> IF ~rn.ok THEN "err"
                                     ELSE IF rn.v = 0 THEN "ok" ELSE "none",
                          self |-> [models |-> <<>>]]
               /\ pc' = IF rn.ok /\ rn.v > 0 THEN "records" ELSE "read"
           Pool(rn) == IF ~rn.ok THEN rn ELSE read_cstrings(buf, rn.p, rn.v, <<>>)
           Effect(skeleton_files, motion_files, r) ==
               Count(skeleton_files, motion_files, r.v, read_u16(buf, r.p))
           Motion(skeleton_files, r) ==
               Effect(skeleton_files, r.v, Pool(read_u16(buf, r.p)))
           Skeleton(r) == Motion(r.v, Pool(read_u16(buf, r.p)))
       IN Skeleton(Pool(read_u16(buf, 0)))
    /\ UNCHANGED <<val, buf>>

\* for _ in 0..character_count
ChrReadModel ==
    /\ pc = "records"
    /\ LET last == aux.index + 1 = aux.character_count
           Apply(r) ==
               /\ pos' = r.p
               /\ aux' = [aux EXCEPT !.index = @ + 1]
               /\ out' = [status |-> IF r.st # "ok" THEN r.st
                                     ELSE IF last THEN "ok" ELSE "none",
                          self |-> IF r.st # "ok" THEN out.self
                                   ELSE [models |-> Append(out.self.models, r.v)]]
               /\ pc' = IF r.st # "ok" \/ last THEN "read" ELSE "records"
       IN Apply(chr_read_model(buf, pos, aux.pools))
    /\ UNCHANGED <<val, buf>>

NextChr ==
    \/ ChrWriteHead
    \/ ChrWriteModel
    \/ ChrReadHead
    \/ ChrReadModel

SpecChr == InitChr /\ [][NextChr]_vars

(***************************************************************************)
(* Properties of the tabular codec.                                        *)
(***************************************************************************)
NoTrailingNul(s) == s = <<>> \/ s[Len(s)] # 0

RECURSIVE SumLen(_)
SumLen(ss) == IF ss = <<>> THEN 0 ELSE 2 + Len(Head(ss)) + SumLen(Tail(ss))

\* where the row names end: 4 identifier + 4 offset + 3 * 4 counts and row
\* height + 2 header height + 2 per width + the u16-prefixed names
RowNamesEnd(t) ==
    8 + 12 + 2 + 2 * Len(t.headers)
    + SumLen([i \in 1..Len(t.headers) |-> t.headers[i].name])
    + SumLen(<<t.header_row_name>>)
    + SumLen([i \in 1..Len(t.data) |-> t.data[i][1]])

StbRegular(t) ==
    /\ Len(t.headers) >= 1
    /\ \A i \in 1..Len(t.data) :
          /\ Len(t.data[i]) = Len(t.headers)
          /\ \A j \in 1..Len(t.data[i]) : NoTrailingNul(t.data[i][j])

\* C1: an STB1 table with at least one header, rows of headers.len() cells
\* and no cell ending in NUL is read back from the bytes write produced with
\* the same rows(), the same cols() and the same get(r, c) for every cell,
\* column 0 (stored before the patched offset) included.
C1_StbRoundTrip ==
    (pc = "read" /\ val.identifier = STB1 /\ StbRegular(val)) =>
        /\ out.status = "ok"
        /\ rows(out.self) = rows(val)
        /\ cols(out.self) = cols(val)
        /\ \A r \in 0..(rows(val) - 1) : \A c \in 0..(cols(val) - 1) :
              get(out.self, r, c) = get(val, r, c)
        /\ aux.offset = RowNamesEnd(val)

C1_Witness ==
    /\ pc = "read"
    /\ val.identifier = STB1
    /\ StbRegular(val)
    /\ rows(val) = 2
    /\ cols(val) = 2
    /\ get(val, 0, 0) = <<97, 98>>
    /\ get(val, 1, 1) = <<97, 98>>
    /\ get(out.self, 1, 1) = <<97, 98>>

\* C10: write puts a zero u32 at positions 4..8 first, then the header and
\* the row names; the position recorded next is where the row names end; the
\* grid is appended from that position; only the last step changes positions
\* 4..8, to the recorded position, and it changes no other byte.
C10_StbPatchOrder ==
    [][
        /\ (pc = "init" =>
               /\ pc' = "placeholder"
               /\ Len(buf') = 8
               /\ SubSeq(buf', 5, 8) = <<0, 0, 0, 0>>)
        /\ (pc' \in {"head", "offset", "cells"} =>
               /\ SubSeq(buf', 5, 8) = <<0, 0, 0, 0>>
               /\ SubSeq(buf', 1, Len(buf)) = buf)
        /\ (pc' = "head" => Len(buf') = RowNamesEnd(val))
        /\ (pc' = "offset" => aux'.offset = RowNamesEnd(val) /\ buf' = buf)
        /\ (pc' = "cells" =>
               /\ aux' = aux
               /\ SubSeq(buf', aux.offset + 1, Len(buf')) = DataTable_write_cells(val))
        /\ (pc' = "written" =>
               /\ pc = "cells"
               /\ Len(buf') = Len(buf)
               /\ \A i \in 1..Len(buf) : (i < 5 \/ i > 8) => buf'[i] = buf[i]
               /\ read_u32(buf', 4).v = aux.offset
               /\ aux.offset = RowNamesEnd(val))
    ]_vars

C10_Witness ==
    /\ pc = "written"
    /\ rows(val) = 2
    /\ cols(val) = 2
    /\ read_u32(buf, 4).v = RowNamesEnd(val)
    /\ RowNamesEnd(val) < Len(buf)

\* C13: a table with the identifier STB0, a header_row_height of 100 and
\* one width shared by all columns, as read produces for a file of the
\* legacy sub-version, is read back from the bytes write produced for it as
\* an equal table: same identifier, header names and widths, rows and cells.
C13_Stb0RoundTrip ==
    (/\ pc = "read"
     /\ val.identifier = STB0
     /\ val.header_row_height = 100
     /\ \A i \in 1..Len(val.headers) : val.headers[i].width = val.headers[1].width
     /\ StbRegular(val)) =>
        /\ out.status = "ok"
        /\ out.self = val

\* C27: read fails with a malformed-structure error on a file whose 4-byte
\* identifier is neither STB0 nor STB1.
C27_UnknownIdentifier ==
    pc = "read" /\ SubSeq(buf, 1, 4) \notin {STB0, STB1} => out.status = "err"

\* C25: after any sequence of successful reads into one DataTable every
\* data row has headers.len() cells, rows() is the row count of the file
\* read last and, where there is a row, cols() is its column count.
C25_RowsAfterReads ==
    pc \in {"read", "read again"} /\ out.status = "ok" =>
        /\ \A i \in 1..Len(out.self.data) :
              Len(out.self.data[i]) = Len(out.self.headers)
        /\ rows(out.self) = read_u32(buf, 8).v - 1
        /\ rows(out.self) > 0 => cols(out.self) = read_u32(buf, 12).v

(***************************************************************************)
(* Properties of the string table codec.                                   *)
(***************************************************************************)
StlValid(t) ==
    \A k \in DOMAIN t.entries :
        /\ NoTrailingNul(k)
        /\ t.entries[k].variant = t.entry_type
        /\ \A f \in 1..Len(t.entries[k].fields) : \A l \in 1..LanguageCount :
              NoTrailingNul(t.entries[k].fields[f][l])

\* C2: a StringTable whose entries all have the variant of entry_type, with
\* no key or text ending in NUL, is read back from the bytes write produced
\* as an equal StringTable: same entry_type, same keys, same string for every
\* key, field and language.
C2_StlRoundTrip ==
    (pc = "read" /\ aux.origin = "write" /\ StlValid(val)) =>
        /\ out.status = "ok"
        /\ out.self.entry_type = val.entry_type
        /\ DOMAIN out.self.entries = DOMAIN val.entries
        /\ \A k \in DOMAIN val.entries : out.self.entries[k] = val.entries[k]

C2_Witness ==
    /\ pc = "read"
    /\ aux.origin = "write"
    /\ StlValid(val)
    /\ val.entry_type = "Quest"
    /\ Cardinality(DOMAIN val.entries) = 2
    /\ \E k \in DOMAIN val.entries :
          /\ val.entries[k].fields[4][7] = <<68, 55>>
          /\ out.self.entries[k].fields[4][7] = <<68, 55>>
    /\ \E k \in DOMAIN val.entries :
          /\ Len(val.entries[k].fields[1][1]) = LongLen
          /\ out.self.entries[k].fields[1][1] = val.entries[k].fields[1][1]

\* C11: once write has completed for a table with K keys, slot L of the
\* 7-slot language-offset array holds the position of language L's offset
\* table, each of these tables has K u32 slots, slot k of language L's table
\* holds the position where the strings of the k-th key in written order
\* begin for language L, and no slot is left 0; every step of the two loops
\* ends at the end of the stream and changes no byte written before it
\* other than the four zero bytes of the slot it patches.
C11_StlOffsets ==
    /\ [](pc = "written" /\ aux.origin = "write" =>
            LET K == Len(aux.keys)
                Slot(n) == read_u32(buf, aux.entry_offsets + 4 * n).v
                Payload(n) ==
                    Concat([f \in 1..Len(val.entries[aux.keys[(n % K) + 1]].fields) |->
                              write_string_varbyte(
                                  val.entries[aux.keys[(n % K) + 1]].fields[f][(n \div K) + 1])])
            IN /\ aux.entry_offsets = aux.language_offsets + 4 * LanguageCount
               /\ \A L \in 0..(LanguageCount - 1) :
                     /\ read_u32(buf, aux.language_offsets + 4 * L).v
                           = aux.entry_offsets + 4 * K * L
                     /\ read_u32(buf, aux.language_offsets + 4 * L).v # 0
               /\ K = 0 => Len(buf) = aux.entry_offsets
               /\ K > 0 => /\ Slot(0) = aux.entry_offsets + 4 * K * LanguageCount
                           /\ Slot(LanguageCount * K - 1) + Len(Payload(LanguageCount * K - 1))
                                 = Len(buf)
               /\ \A n \in 0..(LanguageCount * K - 1) :
                     /\ Slot(n) # 0
                     /\ SubSeq(buf, Slot(n) + 1, Slot(n) + Len(Payload(n))) = Payload(n)
                     /\ n > 0 => Slot(n) = Slot(n - 1) + Len(Payload(n - 1)))
    /\ [][(pc = "tables" \/ pc = "payload") =>
           (LET slot == IF pc = "tables"
                        THEN aux.language_offsets + 4 * aux.language_index
                        ELSE aux.entry_offsets
                             + 4 * (aux.language_index * Len(aux.keys) + aux.entry_index)
            IN /\ Len(buf') >= Len(buf)
               /\ pos = Len(buf)
               /\ pos' = Len(buf')
               /\ SubSeq(buf, slot + 1, slot + 4) = <<0, 0, 0, 0>>
               /\ read_u32(buf', slot).v = pos
               /\ \A i \in 1..Len(buf) : (i <= slot \/ i > slot + 4) => buf'[i] = buf[i])
       ]_vars

C11_Witness ==
    /\ pc = "written"
    /\ aux.origin = "write"
    /\ Len(aux.keys) = 3
    /\ val.entry_type = "Quest"
    /\ \A k \in DOMAIN val.entries : val.entries[k].variant = "Quest"
    /\ \E k \in DOMAIN val.entries : Len(val.entries[k].fields[1][1]) = LongLen
    /\ read_u32(buf, aux.language_offsets + 4 * 6).v = aux.entry_offsets + 4 * 3 * 6
    /\ read_u32(buf, aux.entry_offsets + 4 * 20).v > aux.entry_offsets + 4 * 3 * 7 + LongLen

\* C12 as amended: in the string-table file every key has exactly one
\* stored offset in each language's offset table, whatever the entry type;
\* write emits K slots per language for K keys and the strings of an entry
\* back to back, and read seeks to the key's one stored offset and reads the
\* 1 (Text), 2 (Description) or 4 (Quest) strings of the entry one after the
\* other from there.
C12_OneOffsetPerKey ==
    LET K == Len(aux.keys)
        Table(array, L) == read_u32(buf, array + 4 * L).v
        Written(array) ==
            /\ \A L \in 0..(LanguageCount - 2) : Table(array, L + 1) - Table(array, L) = 4 * K
            /\ K > 0 => read_u32(buf, Table(array, 0)).v
                           = Table(array, LanguageCount - 1) + 4 * K
        Stored(array, L, k, e) ==
            LET At(off, bytes) == SubSeq(buf, off + 1, off + Len(bytes)) = bytes
            IN /\ Len(e.fields) = FieldCount(out.self.entry_type)
               /\ At(read_u32(buf, Table(array, L) + 4 * (k - 1)).v,
                     Concat([f \in 1..Len(e.fields) |->
                               write_string_varbyte(e.fields[f][L + 1])]))
        Read(array) ==
            \A L \in 0..(LanguageCount - 1), k \in 1..K :
                L < aux.language_count => Stored(array, L, k, out.self.entries[aux.keys[k]])
    IN /\ pc = "written" /\ aux.origin = "write" => Written(aux.language_offsets)
       /\ pc = "read" /\ out.status = "ok" /\ (aux.origin = "write" => StlValid(val))
             => Read(stl_read_head(StringTable_default, buf).p)

C12_Witness ==
    /\ pc = "read"
    /\ aux.origin = "write"
    /\ out.status = "ok"
    /\ StlValid(val)
    /\ val.entry_type = "Quest"
    /\ Len(aux.keys) = 2
    /\ read_u32(buf, aux.language_offsets + 4).v - read_u32(buf, aux.language_offsets).v = 8
    /\ \A k \in DOMAIN val.entries :
          /\ val.entries[k].fields[4][7] = <<68, 55>>
          /\ out.self.entries[k].fields[4][7] = <<68, 55>>

\* C12 as stated: every key has one stored offset per text field in each
\* language's offset table, 1 for a Text entry, 2 for a Description entry
\* and 4 for a Quest entry; write emits that many slots per key, and read
\* seeks to each field's own stored offset before reading that field.
C12_OffsetPerField ==
    LET K == Len(aux.keys)
        Table(array, L) == read_u32(buf, array + 4 * L).v
        Written(array, F) ==
            \A L \in 0..(LanguageCount - 2) :
                Table(array, L + 1) - Table(array, L) = 4 * K * F
        Read(array, F) ==
            \A L \in 0..(LanguageCount - 1), k \in 1..K, f \in 1..F :
                L < aux.language_count =>
                    read_string_varbyte(
                        buf, read_u32(buf, Table(array, L) + 4 * ((k - 1) * F + f - 1)).v).v
                      = out.self.entries[aux.keys[k]].fields[f][L + 1]
    IN /\ pc = "written" /\ aux.origin = "write" /\ StlValid(val)
             => Written(aux.language_offsets, FieldCount(val.entry_type))
       /\ pc = "read" /\ out.status = "ok" /\ (aux.origin = "write" => StlValid(val))
             => Read(stl_read_head(StringTable_default, buf).p,
                     FieldCount(out.self.entry_type))

\* C14: write emits the keys in natural order, a run of digits comparing by
\* its value: i2, i10 and i1 are written as i1, i2, i10; the integer key
\* beside each string key is its index in that order; and the bytes written
\* are the same whatever the order in which the map yields its keys.
C14_KeyOrder ==
    pc = "tables" /\ aux.language_index = 0 =>
        /\ \A i \in 1..Len(aux.keys), j \in 1..Len(aux.keys) :
              i < j => human_sort_compare(aux.keys[i], aux.keys[j]) = "Less"
        /\ DOMAIN val.entries = KeyTexts
              => aux.keys = <<<<105, 49>>, <<105, 50>>, <<105, 49, 48>>>>
        /\ SubSeq(buf, 1, aux.language_offsets)
              = write_string_varbyte(TypeTag(val.entry_type))
                \o write_u32(Len(aux.keys))
                \o Concat([i \in 1..Len(aux.keys) |->
                             write_string_varbyte(aux.keys[i]) \o write_u32(i - 1)])
                \o write_u32(LanguageCount)
        /\ \A order \in hash_orders(DOMAIN val.entries) :
              stl_write_head(val, [b |-> <<>>, p |-> 0], order).w.b = buf

\* C15: after a read into a fresh table has succeeded, every entry has the
\* fields of the type the file declares (1 for Text, 2 for Description, 4
\* for Quest) and a string for each of the 7 languages in each of them; the
\* strings of the languages the file does not have are empty; and a round
\* of the language loop for an index of 7 or above reads the offset,
\* changes no entry and does not fail.
C15_AllLanguages ==
    /\ [](pc = "read" /\ out.status = "ok" /\ aux.origin # "again" =>
            \A k \in DOMAIN out.self.entries :
                /\ out.self.entries[k].variant = out.self.entry_type
                /\ Len(out.self.entries[k].fields) = FieldCount(out.self.entry_type)
                /\ \A f \in 1..Len(out.self.entries[k].fields) :
                      /\ DOMAIN out.self.entries[k].fields[f] = 1..LanguageCount
                      /\ \A l \in 1..LanguageCount :
                            l > aux.language_count
                               => out.self.entries[k].fields[f][l] = <<>>)
    /\ [][(pc = "languages" /\ aux.language_index >= LanguageCount) =>
             /\ out'.self = out.self
             /\ out'.status # "err"
             /\ pos' = pos + 4
       ]_vars

C15_Witness ==
    /\ pc = "read"
    /\ out.status = "ok"
    /\ aux.origin = "file"
    /\ val.language_count = 9
    /\ val.entry_type = "Quest"
    /\ val.first_key = 97
    /\ aux.language_index = 9
    /\ out.self.entries[<<98>>].fields[4][7] = <<68, 55, 98>>
    /\ Len(out.self.entries[<<97>>].fields) = 4

\* C24: after any sequence of successful reads into one StringTable, from
\* files of any types, every entry of the table has the variant of the
\* table's entry_type.
C24_EntryVariants ==
    pc = "read" /\ out.status = "ok" =>
        \A k \in DOMAIN out.self.entries :
            out.self.entries[k].variant = out.self.entry_type

(***************************************************************************)
(* Properties of the model list codec.                                     *)
(***************************************************************************)

\* == on two model lists: the derived PartialEq, in which the two zeros of
\* f32 are equal
ModelList_eq(a, b) ==
    LET f(x) == IF f32_is_zero(x) THEN f32("0.0") ELSE x
        vec(v) == [i \in DOMAIN v |-> f(v[i])]
        quat(q) == [x |-> f(q.x), y |-> f(q.y), z |-> f(q.z), w |-> f(q.w)]
        node(n) == [n EXCEPT !.position = vec(@), !.rotation = quat(@), !.scale = vec(@)]
        model(m) ==
            IF m = None THEN None
            ELSE Some([bounding_cylinder |-> [radius |-> f(m[1].bounding_cylinder.radius),
                                              center |-> m[1].bounding_cylinder.center],
                       bounding_box |-> [min |-> vec(m[1].bounding_box.min),
                                         max |-> vec(m[1].bounding_box.max)],
                       parts |-> [i \in DOMAIN m[1].parts |-> node(m[1].parts[i])],
                       dummy_points |->
                           [i \in DOMAIN m[1].dummy_points |-> node(m[1].dummy_points[i])]])
        list(l) == [i \in DOMAIN l.models |-> model(l.models[i])]
    IN Len(a.models) = Len(b.models) /\ list(a) = list(b)

\* C3: for every model list, reading the bytes that write produced for it
\* into a fresh list succeeds and yields as many slots as were written, each
\* equal to the written one: a hole stays a hole and a present model stays
\* present with the same parts and dummy points.
C3_ZscRoundTrip ==
    pc = "read" /\ aux.origin = "write" => out.status = "ok" /\ ModelList_eq(out.self, val)

\* C5: write encodes a hole as a zero radius, a zero centre and a part
\* count of 0, 14 bytes with nothing after them, and the record after a hole
\* is read from where write put it; read turns every record whose part
\* count is 0 into a hole, stops 14 bytes after the record's start, and
\* never returns a model with an empty parts list.
C5_HoleRecords ==
    /\ aux.origin = "write" =>
         \A i \in 1..Len(aux.starts) :
            val.models[i] = None =>
               /\ SubSeq(buf, aux.starts[i] + 1, aux.starts[i] + 14)
                    = write_u32(0) \o write_i32(0) \o write_i32(0) \o write_u16(0)
               /\ (IF i < Len(aux.starts) THEN aux.starts[i + 1] ELSE Len(buf))
                    = aux.starts[i] + 14
               /\ i < Len(aux.read_starts) => aux.read_starts[i + 1] = aux.starts[i + 1]
    /\ \A i \in 1..Len(aux.read_starts) :
          LET count == read_u16(buf, aux.read_starts[i] + 12)
          IN count.ok /\ count.v = 0 =>
                /\ aux.read_ends[i] = aux.read_starts[i] + 14
                /\ i <= Len(out.self.models)
                /\ out.self.models[i] = None
    /\ \A i \in 1..Len(out.self.models) :
          /\ out.self.models[i] # None => out.self.models[i][1].parts # <<>>
          /\ out.self.models[i] = None => read_u16(buf, aux.read_starts[i] + 12).v = 0

\* a hole was written before a model of two parts, and both were read back
C5_Witness ==
    /\ pc = "read" /\ aux.origin = "write" /\ out.status = "ok"
    /\ Len(val.models) = 2
    /\ val.models[1] = None /\ val.models[2] # None
    /\ Len(val.models[2][1].parts) = 2
    /\ out.self.models[1] = None
    /\ out.self.models[2] # None
    /\ Len(out.self.models[2][1].parts) = 2

\* C6: reading what write produced for a list succeeds and gives every part
\* that had no material a part with no material, whether the list has
\* materials or none.
C6_AbsentMaterial ==
    pc = "read" /\ aux.origin = "write" =>
        \A i \in 1..Len(val.models) :
            val.models[i] # None =>
                \A j \in 1..Len(val.models[i][1].parts) :
                    val.models[i][1].parts[j].material = None =>
                        /\ out.status = "ok"
                        /\ out.self.models[i] # None
                        /\ out.self.models[i][1].parts[j].material = None

\* C7: after write and a read that succeeds, the material of every part has
\* the z_test_enabled and the z_write_enabled it had when it was written, for
\* each of the four settings of the two flags.
C7_ZFlags ==
    pc = "read" /\ aux.origin = "write" /\ out.status = "ok" =>
        \A i \in 1..Len(val.models) :
            val.models[i] # None =>
                \A j \in 1..Len(val.models[i][1].parts) :
                    LET written == val.models[i][1].parts[j].material
                        decoded == out.self.models[i][1].parts[j].material
                    IN written # None =>
                          /\ decoded # None
                          /\ decoded[1].z_test_enabled = written[1].z_test_enabled
                          /\ decoded[1].z_write_enabled = written[1].z_write_enabled

\* C8: a tag byte that is no model property makes read fail when it stands
\* in the property stream of a part; in the property stream of a dummy point
\* every tag byte other than 0, Position, Rotation, Scale and Parent, a
\* known property or not, is stepped over by its size byte, read succeeds
\* and the Position that follows it is decoded.
C8_UnknownTags ==
    pc = "read" /\ aux.origin = "file" =>
        /\ val.part_extra # <<>> /\ ModelProperty_from_u8(val.part_extra[1]) = None
              => out.status = "invalid"
        /\ val.part_extra = <<>> /\ val.dummy_extra # <<>>
           /\ val.dummy_extra[1] \notin {0, 1, 2, 3, 7}
              => /\ out.status = "ok"
                 /\ out.self.models[Len(out.self.models)][1].dummy_points[1].position
                      = <<f32("2.0"), f32("0.0"), f32("0.5")>>

\* C9: after the two pool indices of a part, and after the effect index and
\* the attachment type of a dummy point, write emits Position iff some
\* coordinate is not zero, Rotation iff the rotation is not near identity,
\* Scale iff some component is not 1, BoneIndex, DummyIndex, Parent,
\* Collision, AnimationPath and Range iff the field is present, UseLightmap
\* iff it is true, then one byte 0; reading the written bytes succeeds and
\* every field that got no tag has its default value.
C9_TagsAndDefaults ==
    pc = "read" /\ aux.origin = "write" =>
        LET Tag(present, tag, payload) ==
                IF present THEN <<tag, Len(payload)>> \o payload ELSE <<>>
            Transform(x) ==
                Tag(\E k \in 1..3 : ~f32_is_zero(x.position[k]), 1, Concat(x.position))
                \o Tag(~is_near_identity(x.rotation), 2,
                       x.rotation.w \o x.rotation.x \o x.rotation.y \o x.rotation.z)
                \o Tag(\E k \in 1..3 : x.scale[k] # f32("1.0"), 3, Concat(x.scale))
            Parent(x) ==
                Tag(x.parent # None, 7, IF x.parent # None THEN write_u16(x.parent[1] + 1)
                                        ELSE <<>>)
            Optional(field, tag) ==
                Tag(field # None, tag, IF field # None THEN write_u16(field[1]) ELSE <<>>)
            PartTags(part) ==
                Transform(part)
                \o Optional(part.bone_index, 5) \o Optional(part.dummy_index, 6)
                \o Parent(part)
                \o Tag(part.collision_shape # None, 29,
                       IF part.collision_shape # None
                       THEN write_u16(part.collision_shape[1] + part.collision_flags)
                       ELSE <<>>)
                \o Tag(part.animation_path # None, 30,
                       IF part.animation_path # None THEN part.animation_path[1] ELSE <<>>)
                \o Optional(part.range_set_id, 31)
                \o Tag(part.use_lightmap, 32, write_bool16(TRUE))
                \o <<0>>
            TransformDefaults(x, y) ==
                /\ (\A k \in 1..3 : f32_is_zero(x.position[k])) => y.position = Vector3_ZERO
                /\ is_near_identity(x.rotation) => y.rotation = Quaternion_IDENTITY
                /\ (\A k \in 1..3 : x.scale[k] = f32("1.0")) => y.scale = Vector3_ONE
                /\ x.parent = None => y.parent = None
            PartDefaults(x, y) ==
                /\ TransformDefaults(x, y)
                /\ x.bone_index = None => y.bone_index = None
                /\ x.dummy_index = None => y.dummy_index = None
                /\ x.collision_shape = None => y.collision_shape = None
                /\ x.animation_path = None => y.animation_path = None
                /\ x.range_set_id = None => y.range_set_id = None
                /\ ~x.use_lightmap => ~y.use_lightmap
            Bytes(w) == SubSeq(w, 5, Len(w))
        IN \A i \in 1..Len(val.models) :
              val.models[i] # None /\ val.models[i][1].parts # <<>> =>
                 /\ \A j \in 1..Len(val.models[i][1].parts) :
                       /\ Bytes(zsc_write_part(val.models[i][1].parts[j], aux.pools))
                            = PartTags(val.models[i][1].parts[j])
                       /\ out.status = "ok"
                       /\ PartDefaults(val.models[i][1].parts[j],
                                       out.self.models[i][1].parts[j])
                 /\ \A j \in 1..Len(val.models[i][1].dummy_points) :
                       /\ Bytes(zsc_write_dummy_point(val.models[i][1].dummy_points[j],
                                                      aux.pools))
                            = Transform(val.models[i][1].dummy_points[j])
                              \o Parent(val.models[i][1].dummy_points[j]) \o <<0>>
                       /\ out.status = "ok"
                       /\ TransformDefaults(val.models[i][1].dummy_points[j],
                                            out.self.models[i][1].dummy_points[j])

\* C18: write is deterministic: the mesh pool, the material pool and the
\* effect pool each hold every distinct value the list refers to exactly
\* once, in an order fixed by the values alone, so that the pools of one
\* write, and with them its bytes, are those of every other write of the
\* same list, also when two different materials share a texture path.
C18_DeterministicWrite ==
    aux.origin = "write" /\ pc # "init" =>
        LET collected == zsc_pools(val)
            Once(pool) == \A i, j \in DOMAIN pool : i # j => pool[i] # pool[j]
            Members(pool) == {pool[i] : i \in DOMAIN pool}
        IN /\ Once(aux.pools.mesh_files) /\ Once(aux.pools.materials)
           /\ Once(aux.pools.effect_files)
           /\ aux.pools.mesh_files = collected.mesh_files
           /\ aux.pools.effect_files = collected.effect_files
           /\ Members(aux.pools.materials) = collected.materials
           /\ \A materials \in zsc_material_orders(collected.materials) :
                 /\ materials = aux.pools.materials
                 /\ zsc_write_head(val, [collected EXCEPT !.materials = materials])
                      = SubSeq(buf, 1, IF aux.starts = <<>> THEN Len(buf) ELSE aux.starts[1])

\* C19: read returns a malformed-structure error, and does not abort, when
\* a part's mesh index is negative or not below the length of the mesh pool
\* of the file, when its material index is not below the length of the
\* material pool, or when a dummy point's effect index is not below the
\* length of the effect pool.
C19_PoolIndexOutOfRange ==
    pc = "read" /\ aux.origin = "file"
    /\ \/ val.mesh_index < 0
       \/ val.mesh_index >= Len(aux.read_pools.meshes)
       \/ val.material_index >= Len(aux.read_pools.materials)
       \/ val.effect_index >= Len(aux.read_pools.effects)
    => out.status = "invalid"

\* C20: read fails with a malformed-structure error on a material whose
\* blend mode is neither 0 nor 1 or whose glow type is neither 0 nor one of
\* 2..6, and on a dummy point whose attachment type is above 2, in a file
\* whose pool indices are all within the pools.
C20_InvalidEnumValue ==
    pc = "read" /\ aux.origin = "file"
    /\ val.mesh_index = 0 /\ val.material_index <= 0 /\ val.effect_index <= 0
    /\ \/ val.blend_mode \notin {0, 1}
       \/ val.glow_type \notin {0} \cup (2..6)
       \/ val.attachment_type > 2
    => out.status = "invalid"

(***************************************************************************)
(* Properties of the text form of a model.                                 *)
(***************************************************************************)

\* C4: for every model with at least one part, Model::read accepts the text
\* Model::write produced for it without error, and the model read into
\* Model::new() is equal to the written one.
C4_TextRoundTrip ==
    pc = "read" /\ aux.origin = "write" /\ Len(val.parts) >= 1 =>
        /\ out.status = "ok"
        /\ ModelList_eq([models |-> <<Some(out.self)>>], [models |-> <<Some(val)>>])

\* C23: the parent index is stored 1-based with 0 for no parent: after a
\* write and a successful read of the written bytes every part and every
\* dummy point with the parent Some(p) has the parent Some(p) again, and
\* one with no parent has no parent.
C23_ParentIndex ==
    pc = "read" /\ aux.origin = "write" /\ out.status = "ok" =>
        \A i \in 1..Len(val.models) :
            val.models[i] # None /\ val.models[i][1].parts # <<>> =>
               /\ \A j \in 1..Len(val.models[i][1].parts) :
                     out.self.models[i][1].parts[j].parent = val.models[i][1].parts[j].parent
               /\ \A j \in 1..Len(val.models[i][1].dummy_points) :
                     out.self.models[i][1].dummy_points[j].parent
                        = val.models[i][1].dummy_points[j].parent

\* C28: under an obj line, the material lines Model::write emits for a
\* material are read back without an error into a part whose material has
\* the same is_skin, alpha_enabled, two_sided, alpha_test, z_test_enabled,
\* z_write_enabled, blend_mode, specular_enabled, alpha and glow.
C28_MaterialLines ==
    pc = "read" /\ aux.origin = "text" =>
        \A material \in MaterialCases :
            val = Word.obj \o <<32>> \o fmt_int(1) \o <<10>>
                  \o Model_write_material(material) =>
                /\ out.status = "ok"
                /\ Len(out.self.parts) = 1
                /\ out.self.parts[1].material # None
                /\ [out.self.parts[1].material[1] EXCEPT !.path = material.path] = material

\* C29: the two lines of a split pair give the same committed record in
\* either order: under an obj line, alphatest 1 and alpharef 7 give a
\* material with the alpha test 7, and glowtype 3 and glowcolor 0.5 0 1 a
\* material with that glow and that colour; under a point line, effect e
\* and a type line give the attachment of that type with the path or name e.
C29_SplitPairs ==
    pc = "read" /\ aux.origin = "text" =>
        LET Text(words) ==
                Concat([i \in 1..Len(words) |->
                           words[i] \o (IF i = Len(words) THEN <<10>> ELSE <<32>>)])
            Obj(a, b) ==
                Text(<<Word.numobj, fmt_int(1)>>) \o Text(<<Word.obj, fmt_int(1)>>)
                \o <<9>> \o Text(a) \o <<32, 9>> \o Text(b)
            Point(a, b) ==
                Text(<<Word.point, fmt_int(1)>>) \o <<9>> \o Text(a) \o <<9>> \o Text(b)
            alphatest == <<Word.alphatest, fmt_int(1)>>
            alpharef == <<Word.alpharef, fmt_int(7)>>
            glowtype == <<Word.glowtype, fmt_int(3)>>
            glowcolor == <<Word.glowcolor, fmt_f32(f32("0.5")), fmt_int(0), fmt_int(1)>>
            effect == <<Word.effect, <<101>>>>
            type(n) == <<Word.type, fmt_int(n)>>
            Part(material) ==
                /\ out.status = "ok"
                /\ out.self.dummy_points = <<>>
                /\ out.self.parts = <<[ModelPart_default EXCEPT !.material = Some(material)]>>
            Dummy(attachment) ==
                /\ out.status = "ok"
                /\ out.self.parts = <<>>
                /\ out.self.dummy_points =
                      <<[ModelDummyPoint_default EXCEPT !.attachment = Some(attachment)]>>
        IN /\ val \in {Obj(alphatest, alpharef), Obj(alpharef, alphatest)} =>
                Part([ModelMaterial_default EXCEPT !.alpha_test = Some(7)])
           /\ val \in {Obj(glowtype, glowcolor), Obj(glowcolor, glowtype)} =>
                Part([ModelMaterial_default EXCEPT
                         !.glow = Some([glow_type |-> 3,
                                        color |-> <<f32("0.5"), f32("0.0"), f32("1.0")>>])])
           /\ \A n \in 0..1 :
                val \in {Point(effect, type(n)), Point(type(n), effect)} =>
                    Dummy([kind |-> "Effect", path |-> <<101>>,
                           only_visible_at_night |-> n = 1])
           /\ val \in {Point(effect, type(2)), Point(type(2), effect)} =>
                Dummy([kind |-> "Light", name |-> <<101>>])

\* a text whose type line comes after its effect line has been read to its
\* end, and the light committed carries the name of the effect line
C29_Witness ==
    /\ pc = "read"
    /\ aux.origin = "text"
    /\ out.status = "ok"
    /\ val = Word.point \o <<32>> \o fmt_int(1) \o <<10, 9>> \o Word.effect \o <<32, 101, 10, 9>>
             \o Word.type \o <<32>> \o fmt_int(2) \o <<10>>
    /\ Len(out.self.dummy_points) = 1
    /\ out.self.dummy_points[1].attachment = Some([kind |-> "Light", name |-> <<101>>])

\* C21: while read parses the text form, a line of a block (mesh, mat and
\* the lines of the material, pos, rot, scale, parent, linkdummy,
\* bonenumber, collision, anim, rangeset, uselightmap, effect, type) that
\* comes before any obj or point line, a line of a part under a point and a
\* line of a point under an obj each end the read with the error of a
\* misplaced line, at the 1-based number of that line with blank lines and
\* comments counted, whatever well-formed value the line carries.
C21_MisplacedLine ==
    [][pc = "lines" /\ aux.origin = "text" /\ read_line(buf, pos).line # <<>> =>
          LET words == split_whitespace(read_line(buf, pos).line)
              Both == {Word.pos, Word.rot, Word.scale, Word.parent}
              OfPart == {Word.mesh, Word.mat, Word.isskin, Word.alpha, Word.twoside,
                         Word.alphatest, Word.alpharef, Word.ztest, Word.zwrite,
                         Word.blendtype, Word.specular, Word.alphavalue, Word.glowtype,
                         Word.glowcolor, Word.linkdummy, Word.bonenumber, Word.collision,
                         Word.anim, Word.rangeset, Word.uselightmap}
              OfPoint == {Word.effect, Word.type}
              kind == IF aux.parse_object = None THEN "None"
                      ELSE aux.parse_object[1].kind
              misplaced ==
                  /\ words # <<>>
                  /\ \/ kind = "None" /\ words[1] \in Both \cup OfPart \cup OfPoint
                     \/ kind = "Dummy" /\ words[1] \in OfPart
                     \/ kind = "Part" /\ words[1] \in OfPoint
              Newlines(b) == Cardinality({i \in 1..Len(b) : b[i] = 10})
          IN misplaced =>
                /\ pc' = "read"
                /\ out'.status \in {"Outside", "ForDummy", "ForPart"}
                /\ aux'.line_counter = Newlines(SubSeq(buf, 1, pos'))
                /\ aux'.line_counter = aux.line_counter + 1]_vars

\* C22: read of the text form holds at most one provisional record: an obj
\* or point line appends the provisional record, if there is one, to the
\* end of its list and opens a new one of its own kind, the end of the
\* input appends the last one, and no other line appends anything; the
\* record appended has the mesh, the transform and every other field the
\* lines of its block gave the provisional one. After a successful read the
\* model has one part for each obj line and one dummy point for each point
\* line of the text.
C22_ProvisionalRecord ==
    /\ [](pc \in {"lines", "read"} =>
            LET WhiteSpace == {9, 10, 13, 32}
                \* the lines of the text whose first word is w
                Lines(w) ==
                    {i \in 1..Len(buf) :
                        /\ i + Len(w) - 1 <= Len(buf)
                        /\ SubSeq(buf, i, i + Len(w) - 1) = w
                        /\ i + Len(w) <= Len(buf) => buf[i + Len(w)] \in WhiteSpace
                        /\ \E j \in 0..(i - 1) :
                              /\ j = 0 \/ buf[j] = 10
                              /\ \A k \in (j + 1)..(i - 1) : buf[k] \in WhiteSpace \ {10}}
            IN /\ Len(aux.parse_object) <= 1
               /\ pc = "read" /\ out.status = "ok" =>
                     /\ aux.parse_object = None
                     /\ Len(out.self.parts) = Cardinality(Lines(Word.obj))
                     /\ Len(out.self.dummy_points) = Cardinality(Lines(Word.point)))
    /\ [][pc = "lines" =>
             LET line == read_line(buf, pos).line
                 words == split_whitespace(line)
                 opens == words # <<>> /\ words[1] \in {Word.obj, Word.point}
                 Grown(before, after, n) ==
                     /\ Len(after) = Len(before) + n
                     /\ SubSeq(after, 1, Len(before)) = before
                 Committed(object, self) ==
                     IF object.kind = "Part"
                     THEN /\ Grown(out.self.parts, self.parts, 1)
                          /\ Grown(out.self.dummy_points, self.dummy_points, 0)
                          /\ [self.parts[Len(self.parts)] EXCEPT !.material = None]
                               = [object.part EXCEPT !.material = None]
                          /\ (self.parts[Len(self.parts)].material = None)
                               = (object.part.material = None)
                     ELSE /\ Grown(out.self.parts, self.parts, 0)
                          /\ Grown(out.self.dummy_points, self.dummy_points, 1)
                          /\ [self.dummy_points[Len(self.dummy_points)]
                                 EXCEPT !.attachment = None]
                               = [object.dummy EXCEPT !.attachment = None]
                 Kept(self) ==
                     /\ self.parts = out.self.parts
                     /\ self.dummy_points = out.self.dummy_points
             IN IF line = <<>> \/ opens
                THEN /\ IF aux.parse_object = None THEN Kept(out'.self)
                        ELSE Committed(aux.parse_object[1], out'.self)
                     /\ line = <<>> => aux'.parse_object = None
                     /\ opens =>
                           /\ aux'.parse_object # None
                           /\ aux'.parse_object[1].kind
                                = (IF words[1] = Word.obj THEN "Part" ELSE "Dummy")
                ELSE /\ Kept(out'.self)
                     /\ (aux'.parse_object = None) = (aux.parse_object = None)]_vars

\* a text with an obj line and a point line was read to its end, and gave
\* one part and one dummy point
C22_Witness ==
    /\ pc = "read" /\ aux.origin = "text" /\ out.status = "ok"
    /\ Len(out.self.parts) = 1 /\ Len(out.self.dummy_points) = 1
    /\ out.self.parts[1].mesh_path # <<>>

(***************************************************************************)
(* Properties of the string codec.                                         *)
(***************************************************************************)

\* C26: the wide-string flag is one setting of the process: a string read
\* on any thread decodes its payload as UTF-16LE if the call of
\* set_wide_strings made last, on whatever thread, passed true, and as a
\* narrow string if it passed false or no call was made; the threads never
\* hold different values of the flag.
C26_ProcessWideFlag ==
    /\ \A t1, t2 \in 1..MaxThreads : val[t1] = val[t2]
    /\ out.status = "ok" =>
          LET n == Len(buf)
              cut == IF buf[n] = 0 THEN SubSeq(buf, 1, n - 1) ELSE buf
          IN out.self = IF aux.last_set THEN decode_wide(cut) ELSE decode_narrow(cut)

\* C16: write_string_varbyte puts one prefix byte, the length, before a
\* string of 0..127 bytes and two before a string of 128..32767 bytes, the
\* low 7 bits of the length with the bit 0x80 set and then length >> 7: 127
\* for 127 bytes and 128, 1 for 128 bytes; read_string_varbyte on the
\* written bytes returns the string that was written and stops at their end.
C16_VarbyteRoundTrip ==
    val.encoding = "varbyte" /\ aux.cut = 0 =>
        LET n == Len(val.text)
            prefix == IF n < 128 THEN <<n>> ELSE <<(n % 128) + 128, n \div 128>>
        IN /\ pc = "written" =>
                /\ buf = prefix \o val.text
                /\ n = 127 => SubSeq(buf, 1, 1) = <<127>>
                /\ n = 128 => SubSeq(buf, 1, 2) = <<128, 1>>
           /\ pc = "read" =>
                /\ out.status = "ok"
                /\ out.self = val.text
                /\ pos = Len(buf)

\* C17: a string read whose payload extends past the end of the stream
\* returns an error: a fixed-length or length-prefixed read with fewer bytes
\* left than the declared length, and a null-terminated read that meets the
\* end of the stream before a terminator.
C17_ShortPayload ==
    LET prefix == CASE val.encoding = "fixed" -> 0
                    [] val.encoding = "u8" -> 1
                    [] val.encoding = "u16" -> 2
                    [] val.encoding = "u32" -> 4
                    [] val.encoding = "varbyte" -> IF Len(val.text) < 128 THEN 1 ELSE 2
                    [] val.encoding = "cstring" -> 0
        short == IF val.encoding = "cstring" THEN \A i \in 1..Len(buf) : buf[i] # 0
                 ELSE Len(buf) >= prefix /\ Len(buf) < prefix + Len(val.text)
    IN pc = "read" /\ short => out.status = "err"

(***************************************************************************)
(* Properties of the character list codec.                                 *)
(***************************************************************************)

\* C30: the effect-file pool write collects holds the path of every effect
\* of every present character, write goes through without a panic, and the
\* characters read back from the written bytes have the effects lists of
\* the characters written.
C30_EffectPool ==
    LET present == {i \in 1..Len(val.models) : val.models[i] # None}
    IN /\ pc \in {"models", "written", "aborted"} =>
            \A i \in present : \A k \in 1..Len(val.models[i][1].effects) :
                \E n \in 1..Len(aux.pools.effect_files) :
                    aux.pools.effect_files[n] = val.models[i][1].effects[k][2]
       /\ out.status # "panic"
       /\ pc = "read" /\ out.status = "ok" =>
            /\ Len(out.self.models) = Len(val.models)
            /\ \A i \in present :
                /\ out.self.models[i] # None
                /\ out.self.models[i][1].effects = val.models[i][1].effects

====
